---- MODULE Spec2Model ----
(***************************************************************************)
(* A model of the GAA fixtures pipeline's reconciliation engine:           *)
(* backend/normalise.py (text normaliser, placeholder classifier),         *)
(* backend/utils.py (slugify), backend/merge.py (dedupe, duplicate         *)
(* collapser, competition aggregator) and backend/main.py (build_cmd).     *)
(*                                                                         *)
(* A Python str is a sequence of one-character strings, so that lower(),   *)
(* strip(), the regular expressions and slugify are computed character by  *)
(* character.                                                              *)
(***************************************************************************)
EXTENDS Integers, Sequences, FiniteSets, TLC

VARIABLES
    pc,         \* position of the running command
    name,       \* is_placeholder_team: the argument
    verdict,    \* is_placeholder_team: the returned bool
    hhmm,       \* dedupe of a pair: the two times, <<h, m>> each
    bucket,     \* _best_time_bucket(hhmm[1])
    fixtures,   \* the list handed to dedupe / loaded by build_cmd
    merged,     \* dedupe's result, then build_cmd's `merged`
    again,      \* dedupe applied to its own result
    cfg,        \* build_cmd: the configuration read by load_config
    upcoming,   \* build_cmd: the upcoming window
    recent,     \* build_cmd: the results window
    fallback,   \* build_cmd: whether the results fallback was taken
    competitions, \* competitions_from_fixtures(upcoming / fixtures)
    filtered,   \* build_cmd: `merged` as the placeholder filter leaves it
    today,      \* weekend_top_competitions: today.date()
    weekend,    \* weekend_top_competitions: <<sat, sun>>
    top,        \* weekend_top_competitions: the returned list
    files,      \* the files on disk: path |-> content, for the paths that exist
    prior,      \* the files on disk when the command started
    handle,     \* write_json: the open file and the data not yet flushed
    seen,       \* a concurrent reader: the path and content of its last read
    fetched     \* fetch_cmd: what each collaborator returns or raises

vars == <<pc, name, verdict, hhmm, bucket, fixtures, merged, again, cfg,
          upcoming, recent, fallback, competitions, filtered, today, weekend,
          top, files, prior, handle, seen, fetched>>

----------------------------------------------------------------------------
(* Characters *)

LowerLetters ==
    {"a","b","c","d","e","f","g","h","i","j","k","l","m",
     "n","o","p","q","r","s","t","u","v","w","x","y","z"}

\* str.lower() on the characters of the model's alphabet.
LowerOf ==
    [c \in {"A","B","C","D","E","F","G","H","I","J","K","L","M",
            "N","O","P","Q","R","S","T","U","V","W","X","Y","Z","'A"} |->
        CASE c = "A" -> "a" [] c = "B" -> "b" [] c = "C" -> "c" [] c = "D" -> "d"
          [] c = "E" -> "e" [] c = "F" -> "f" [] c = "G" -> "g" [] c = "H" -> "h"
          [] c = "I" -> "i" [] c = "J" -> "j" [] c = "K" -> "k" [] c = "L" -> "l"
          [] c = "M" -> "m" [] c = "N" -> "n" [] c = "O" -> "o" [] c = "P" -> "p"
          [] c = "Q" -> "q" [] c = "R" -> "r" [] c = "S" -> "s" [] c = "T" -> "t"
          [] c = "U" -> "u" [] c = "V" -> "v" [] c = "W" -> "w" [] c = "X" -> "x"
          [] c = "Y" -> "y" [] c = "Z" -> "z" [] c = "'A" -> "'a"]

UpperLetters == DOMAIN LowerOf \ {"'A"}

Digits == {"0","1","2","3","4","5","6","7","8","9"}

\* The non-ASCII characters of the alphabet, written in ASCII: "'a" and "'A"
\* are the letter a with an acute accent (U+00E1, U+00C1), which NFD
\* decomposes into an ASCII letter and a combining mark; "--" is the en dash
\* (U+2013), which has no decomposition.
Accented == {"'a", "'A"}
NonAscii == Accented \cup {"--"}

LowerChar(c) == IF c \in DOMAIN LowerOf THEN LowerOf[c] ELSE c

lower(s) == [i \in 1..Len(s) |-> LowerChar(s[i])]

\* \s of the re module.
IsSpace(c) == c = " "

\* \w of the re module on str patterns (Unicode letters, digits, underscore).
IsWordChar(c) ==
    c \in LowerLetters \cup UpperLetters \cup Accented \cup Digits \cup {"_"}

\* [a-z0-9\s-]
IsSlugChar(c) == c \in LowerLetters \cup Digits \cup {"-"} \/ IsSpace(c)

----------------------------------------------------------------------------
(* Sequence helpers standing for str methods and re.sub *)

\* str.strip(): whitespace removed at both ends.
strip(s) ==
    LET keep == {i \in 1..Len(s) : ~IsSpace(s[i])}
    IN  IF keep = {} THEN << >>
        ELSE LET lo == CHOOSE i \in keep : \A j \in keep : i <= j
                 hi == CHOOSE i \in keep : \A j \in keep : j <= i
             IN  SubSeq(s, lo, hi)

\* str.strip("-")
StripHyphens(s) ==
    LET keep == {i \in 1..Len(s) : s[i] # "-"}
    IN  IF keep = {} THEN << >>
        ELSE LET lo == CHOOSE i \in keep : \A j \in keep : i <= j
                 hi == CHOOSE i \in keep : \A j \in keep : j <= i
             IN  SubSeq(s, lo, hi)

\* re.sub(r"[class]+", repl, s) from index i on: every maximal run of
\* characters of the class becomes repl (a sequence, possibly empty).
\* inClass[k] tells whether s[k] is of the class.
RECURSIVE SubRuns(_, _, _, _)
SubRuns(s, inClass, repl, i) ==
    IF i > Len(s) THEN << >>
    ELSE IF inClass[i]
         THEN IF i > 1 /\ inClass[i - 1]
              THEN SubRuns(s, inClass, repl, i + 1)
              ELSE repl \o SubRuns(s, inClass, repl, i + 1)
         ELSE <<s[i]>> \o SubRuns(s, inClass, repl, i + 1)

\* str.split(" "): the pieces between single spaces (empty pieces kept).
RECURSIVE SplitFrom(_, _, _)
SplitFrom(s, i, cur) ==
    IF i > Len(s) THEN <<cur>>
    ELSE IF s[i] = " " THEN <<cur>> \o SplitFrom(s, i + 1, << >>)
         ELSE SplitFrom(s, i + 1, Append(cur, s[i]))

split(s) == SplitFrom(s, 1, << >>)

\* " ".join(tokens)
RECURSIVE join(_)
join(tokens) ==
    IF Len(tokens) = 0 THEN << >>
    ELSE IF Len(tokens) = 1 THEN tokens[1]
         ELSE tokens[1] \o <<" ">> \o join(Tail(tokens))

\* w occurs in s starting at index i.
MatchAt(s, i, w) ==
    /\ i >= 1
    /\ i + Len(w) - 1 <= Len(s)
    /\ \A k \in 1..Len(w) : s[i + k - 1] = w[k]

\* `w in s`
Contains(s, w) == \E i \in 1..(Len(s) - Len(w) + 1) : MatchAt(s, i, w)

\* \b between s[p] and s[p+1] (p = 0: before the first character;
\* p = Len(s): after the last).
WordBoundary(s, p) ==
    LET before == p >= 1 /\ IsWordChar(s[p])
        after  == p < Len(s) /\ IsWordChar(s[p + 1])
    IN  before # after

----------------------------------------------------------------------------
(* backend/normalise.py: the text normaliser *)

\* unicodedata.normalize("NFD", s).encode("ascii", "ignore").decode("ascii"):
\* an accented letter keeps its base letter, any other non-ASCII character
\* is dropped.
AsciiOf(c) ==
    CASE c = "'a" -> <<"a">>
      [] c = "'A" -> <<"A">>
      [] c \in NonAscii \ Accented -> << >>
      [] OTHER -> <<c>>

RECURSIVE strip_diacritics(_)
strip_diacritics(s) ==
    IF Len(s) = 0 THEN << >>
    ELSE AsciiOf(s[1]) \o strip_diacritics(Tail(s))

\* _NON_ALNUM_RE = [^a-z0-9\s-]+
IsNonAlnum(c) == ~IsSlugChar(c)

\* _NON_ALNUM_RE.sub(" ", s)
NonAlnumRuns(s) ==
    SubRuns(s, [k \in 1..Len(s) |-> IsNonAlnum(s[k])], <<" ">>, 1)

\* re.sub(r"\s+", repl, s)
SpaceRuns(s, repl) ==
    SubRuns(s, [k \in 1..Len(s) |-> IsSpace(s[k])], repl, 1)

norm_text(s) ==
    strip(SpaceRuns(NonAlnumRuns(strip_diacritics(lower(s))), <<" ">>))

\* backend/irish_map.py is not among the source files; the table maps an
\* Irish spelling of a token to its English one.
IRISH_TO_ENGLISH ==
    [tok \in {<<"a", "t", "h">>, <<"b", "a", "i", "l", "e">>} |->
        IF tok = <<"a", "t", "h">> THEN <<"d", "u", "b", "l", "i", "n">> ELSE <<"t", "o", "w", "n">>]

\* [IRISH_TO_ENGLISH.get(tok, tok) for tok in tokens]
Mapped(tokens) ==
    [i \in 1..Len(tokens) |->
        IF tokens[i] \in DOMAIN IRISH_TO_ENGLISH
        THEN IRISH_TO_ENGLISH[tokens[i]] ELSE tokens[i]]

map_irish_tokens(s) == join(Mapped(split(norm_text(s))))

----------------------------------------------------------------------------
(* backend/utils.py: slugify *)

IsHyphen(c) == c = "-"

\* str.lower() leaves the characters the NFKD/ascii step produced in ASCII;
\* the single characters outside [a-z0-9\s-] are deleted, whitespace runs
\* become one hyphen, hyphens are stripped at both ends and runs of hyphens
\* collapsed.
\* re.sub(r"-+", "-", s)
HyphenRuns(s) ==
    SubRuns(s, [k \in 1..Len(s) |-> IsHyphen(s[k])], <<"-">>, 1)

slugify(value) ==
    HyphenRuns(StripHyphens(SpaceRuns(
        SelectSeq(lower(strip_diacritics(value)), IsSlugChar), <<"-">>)))

----------------------------------------------------------------------------
(* backend/normalise.py: the placeholder classifier *)

\* The positions p >= j that \s* can reach from j: s[j..p-1] is whitespace.
AfterSpaces(s, j) ==
    {p \in j..(Len(s) + 1) : \A q \in j..(p - 1) : IsSpace(s[q])}

\* w, then \s*, then u, starting at i.
MatchSpaced(s, i, w, u) ==
    /\ MatchAt(s, i, w)
    /\ \E p \in AfterSpaces(s, i + Len(w)) : MatchAt(s, p, u)

\* w, then \s*, then one character of the class, starting at i.
MatchSpacedClass(s, i, w, class) ==
    /\ MatchAt(s, i, w)
    /\ \E p \in AfterSpaces(s, i + Len(w)) : p <= Len(s) /\ s[p] \in class

\* The literal w between (^|\b) and ($|\b), starting at i.
MatchWholeWord(s, i, w) ==
    /\ MatchAt(s, i, w)
    /\ (i = 1 \/ WordBoundary(s, i - 1))
    /\ (i + Len(w) - 1 = Len(s) \/ WordBoundary(s, i + Len(w) - 1))

SimpleWords ==
    {<<"t", "b", "d">>, <<"t", "b", "a">>, <<"t", "b", "c">>, <<"b", "y", "e">>, <<"u", "n", "k", "n", "o", "w", "n">>,
     <<"t", "o", " ", "b", "e", " ", "c", "o", "n", "f", "i", "r", "m", "e", "d">>, <<"t", "o", " ", "b", "e", " ", "d", "e", "c", "i", "d", "e", "d">>}

\* _PLACEHOLDER_SIMPLE.search(raw), re.I: the pattern's letters match either
\* case, so the search runs on the lowered text.
PLACEHOLDER_SIMPLE(raw) ==
    LET t == lower(raw)
    IN  \E i \in 1..Len(t) : \E w \in SimpleWords : MatchWholeWord(t, i, w)

\* _PLACEHOLDER_STAGE.search(s)
PLACEHOLDER_STAGE(s) ==
    \E i \in 1..Len(s) :
        \/ MatchSpaced(s, i, <<"q", "u", "a", "r", "t", "e", "r">>, <<"f", "i", "n", "a", "l">>)
        \/ MatchSpaced(s, i, <<"s", "e", "m", "i">>, <<"f", "i", "n", "a", "l">>)
        \/ MatchAt(s, i, <<"f", "i", "n", "a", "l">>)
        \/ MatchAt(s, i, <<"p", "r", "e", "l", "i", "m">>)
        \/ MatchAt(s, i, <<"p", "r", "e", "l", "i", "m", "i", "n", "a", "r", "y">>)
        \/ MatchAt(s, i, <<"q", "u", "a", "l", "i", "f", "i", "e", "r">>)
        \/ MatchAt(s, i, <<"p", "l", "a", "y", "o", "f", "f">>)
        \/ MatchAt(s, i, <<"p", "l", "a", "y", "-", "o", "f", "f">>)
        \/ MatchAt(s, i, <<"p", "l", "a", "y", " ", "o", "f", "f">>)
        \/ MatchSpacedClass(s, i, <<"r", "o", "u", "n", "d">>, Digits)

\* _PLACEHOLDER_GROUP.search(s)
PLACEHOLDER_GROUP(s) ==
    \E i \in 1..Len(s) :
        \/ MatchSpacedClass(s, i, <<"g", "r", "o", "u", "p">>, LowerLetters \cup UpperLetters)
        \/ MatchSpacedClass(s, i, <<"g", "r", "o", "u", "p">>, Digits)
        \/ MatchSpacedClass(s, i, <<"p", "o", "o", "l">>, LowerLetters \cup UpperLetters)
        \/ MatchSpacedClass(s, i, <<"p", "o", "o", "l">>, Digits)

\* r\d{1,2} between (^|\b) and (\b|$), starting at i.
MatchRoundCode(s, i) ==
    /\ MatchAt(s, i, <<"r">>)
    /\ (i = 1 \/ WordBoundary(s, i - 1))
    /\ \E n \in 1..2 :
          /\ i + n <= Len(s)
          /\ \A k \in 1..n : s[i + k] \in Digits
          /\ (i + n = Len(s) \/ WordBoundary(s, i + n))

\* _PLACEHOLDER_SHORT.search(s)
PLACEHOLDER_SHORT(s) ==
    \E i \in 1..Len(s) :
        \/ \E w \in {<<"q", "f">>, <<"s", "f">>, <<"r", "f">>} : MatchWholeWord(s, i, w)
        \/ MatchRoundCode(s, i)

ph_words ==
    {<<"w", "i", "n", "n", "e", "r">>, <<"l", "o", "s", "e", "r">>, <<"r", "u", "n", "n", "e", "r", "-", "u", "p">>, <<"r", "u", "n", "n", "e", "r", " ", "u", "p">>, <<"r", "u", "n", "n", "e", "r", "s", "-", "u", "p">>,
     <<"r", "u", "n", "n", "e", "r", "s", " ", "u", "p">>, <<"t", "o", "p", " ", "t", "e", "a", "m">>, <<"f", "i", "r", "s", "t", " ", "p", "l", "a", "c", "e">>, <<"s", "e", "c", "o", "n", "d", " ", "p", "l", "a", "c", "e">>,
     <<"t", "h", "i", "r", "d", " ", "p", "l", "a", "c", "e">>, <<"4", "t", "h", " ", "p", "l", "a", "c", "e">>, <<"1", "s", "t", " ", "p", "l", "a", "c", "e">>, <<"2", "n", "d", " ", "p", "l", "a", "c", "e">>, <<"3", "r", "d", " ", "p", "l", "a", "c", "e">>}

\* re.match(r"^[^vvs]+/.+$", raw, re.I): a slash at index k with at least
\* one character before it, none of them v or s in either case, and at
\* least one character after it.
SlashForm(raw) ==
    \E k \in 2..(Len(raw) - 1) :
        /\ raw[k] = "/"
        /\ \A j \in 1..(k - 1) : LowerChar(raw[j]) \notin {"v", "s"}

\* re.search(r"\b(v|vs|versus)\b", raw, re.I)
VersusMarker(raw) ==
    LET t == lower(raw)
    IN  \E i \in 1..Len(t) : \E w \in {<<"v">>, <<"v", "s">>, <<"v", "e", "r", "s", "u", "s">>} :
            /\ MatchAt(t, i, w)
            /\ WordBoundary(t, i - 1)
            /\ WordBoundary(t, i + Len(w) - 1)

is_placeholder_team(n) ==
    IF Len(n) = 0 THEN TRUE
    ELSE LET raw == strip(n)
             s   == lower(strip_diacritics(raw))
         IN  \/ PLACEHOLDER_SIMPLE(raw)
             \/ \E w \in ph_words : Contains(s, w)
             \/ PLACEHOLDER_STAGE(s)
             \/ PLACEHOLDER_GROUP(s)
             \/ PLACEHOLDER_SHORT(s)
             \/ (SlashForm(raw) /\ ~VersusMarker(raw))

----------------------------------------------------------------------------
(* backend/models.py: Fixture *)

\* A str field that is only tested for equality (id, status, source) is a
\* TLA+ string; the fields whose characters are read (competition, home,
\* away, venue, score, search_index) are character sequences, and the None
\* of an Optional[str] is a sequence that is no string. date is the day number of the zero-padded
\* YYYY-MM-DD string, time the <<hour, minute>> of the zero-padded HH:MM
\* string and updated_at the ordinal of the fixed-width ISO-8601 string, so
\* that the order of the strings is the order of the numbers.
None == <<"None">>

\* Python truthiness of an Optional[str].
Truthy(v) == v # None /\ Len(v) > 0

----------------------------------------------------------------------------
(* Orders and sorting *)

\* a < b for tuples of integers of the same length, as Python compares
\* tuples.
RECURSIVE TupleLess(_, _)
TupleLess(a, b) ==
    IF Len(a) = 0 \/ Len(b) = 0 THEN Len(a) < Len(b)
    ELSE IF a[1] # b[1] THEN a[1] < b[1]
         ELSE TupleLess(Tail(a), Tail(b))

\* An insertion that puts x before the indices whose key is equal: a sort
\* that reverses the order of equal elements.
RECURSIVE InsertBeforeEqual(_, _, _)
InsertBeforeEqual(sorted, x, keys) ==
    IF Len(sorted) = 0 THEN <<x>>
    ELSE IF ~TupleLess(keys[sorted[1]], keys[x]) THEN <<x>> \o sorted
         ELSE <<sorted[1]>> \o InsertBeforeEqual(Tail(sorted), x, keys)

\* list.sort / sorted on the indices of a list whose keys are `keys`: x is
\* put into the sorted index list after every index whose key is not
\* greater, so elements with equal keys keep their order (a stable sort).
RECURSIVE InsertStable(_, _, _)
InsertStable(sorted, x, keys) ==
    IF Len(sorted) = 0 THEN <<x>>
    ELSE IF TupleLess(keys[x], keys[sorted[1]]) THEN <<x>> \o sorted
         ELSE <<sorted[1]>> \o InsertStable(Tail(sorted), x, keys)

RECURSIVE SortIndices(_, _, _)
SortIndices(keys, i, acc) ==
    IF i > Len(keys) THEN acc
    ELSE SortIndices(keys, i + 1, InsertStable(acc, i, keys))

\* The elements of s in the order of the index list.
RECURSIVE Permuted(_, _)
Permuted(s, order) ==
    IF Len(order) = 0 THEN << >>
    ELSE <<s[order[1]]>> \o Permuted(s, Tail(order))

\* s sorted ascending by keys (keys[i] is the key of s[i]), stable.
StableSort(s, keys) == Permuted(s, SortIndices(keys, 1, << >>))

\* reverse=True: descending, and still stable, which for tuples of integers
\* is the ascending stable sort on the negated keys.
Negated(key) == [k \in 1..Len(key) |-> 0 - key[k]]

StableSortReversed(s, keys) ==
    StableSort(s, [i \in 1..Len(keys) |-> Negated(keys[i])])

\* key=lambda f: (f.date, f.time)
DateTimeKey(f) == <<f.date, f.time[1], f.time[2]>>

\* The list left in the order it came in.
Unsorted(s) == s

SortByDateTime(s) == StableSort(s, [i \in 1..Len(s) |-> DateTimeKey(s[i])])

----------------------------------------------------------------------------
(* backend/merge.py *)

SOURCE_PRIORITY(source) ==
    CASE source = "gaa_gms" -> 3
      [] source = "clubzap" -> 2
      [] source = "ics"     -> 1
      [] source = "scraper" -> 0
      [] OTHER              -> -1

_minutes(t) == t[1] * 60 + t[2]

\* round(n / d) of Python 3: to the nearest integer, a tie to the even one.
RoundHalfEven(n, d) ==
    LET q == n \div d
        r == n % d
    IN  IF 2 * r < d THEN q
        ELSE IF 2 * r > d THEN q + 1
        ELSE IF q % 2 = 0 THEN q ELSE q + 1

\* A bucket of ten minutes.
_ten_minute_bucket(t) == RoundHalfEven(_minutes(t), 10) * 10

\* A bucket that rounds down to the multiple of 5.
_floor_time_bucket(t) == (_minutes(t) \div 5) * 5

_best_time_bucket(t) == RoundHalfEven(_minutes(t), 5) * 5

\* The team and competition names of the fixtures the model feeds to the
\* engine. Their normal forms, slugs and classifications are computed once,
\* as tables over these names, and looked up afterwards.
TeamNames ==
    {<<"D", "u", "b", "l", "i", "n">>, <<"K", "e", "r", "r", "y">>, <<"'A", "t", "h">>, <<"T", "B", "D">>, <<>>, <<"C", "o", "r", "k">>, <<" ">>,
     <<"D", "U", "B", "L", "I", "N", " ">>}

CompetitionNames ==
    {<<"D", "i", "v", " ", "1">>, <<"D", "i", "v", ".", " ", "1">>, <<"D", "i", "v", " ", "2">>, <<"d", "i", "v", "-", "1">>,
     <<"A", "l", "l", "-", "I", "r", "e", "l", "a", "n", "d", " ", "S", "e", "n", "i", "o", "r", " ", "C", "h", "a", "m", "p", "i", "o", "n", "s", "h", "i", "p">>,
     <<"N", "F", "L", " ", "D", "i", "v", "i", "s", "i", "o", "n", " ", "2", " ", "L", "e", "a", "g", "u", "e">>,
     <<"A", "l", "l", "-", "I", "r", "e", "l", "a", "n", "d", " ", "S", "e", "n", "i", "o", "r", " ", "F", "o", "o", "t", "b", "a", "l", "l", " ", "C", "h", "a", "m", "p", "i", "o", "n", "s", "h", "i", "p">>,
     <<"D", "i", "v", "i", "s", "i", "o", "n", " ", "2", " ", "L", "e", "a", "g", "u", "e">>}

_norm_team(s) == norm_text(map_irish_tokens(s))

NormTeamOf == [n \in TeamNames |-> _norm_team(n)]

\* comp_slug = slugify(f.competition)
SlugOf == [n \in CompetitionNames |-> slugify(n)]

\* A score in which a finished record weighs no more than a venue.
_completeness_points_flat(f) ==
    (IF Truthy(f.venue) THEN 1 ELSE 0)
    + (IF f.status = "FT" THEN 1 ELSE 0)
    + (IF Truthy(f.score) THEN 2 ELSE 0)

_completeness_points(f) ==
    (IF Truthy(f.venue) THEN 1 ELSE 0)
    + (IF f.status = "FT" THEN 3 ELSE 0)
    + (IF Truthy(f.score) THEN 2 ELSE 0)

\* A grouping key without the competition.
GroupKeyWithoutCompetition(f) ==
    <<f.date, _best_time_bucket(f.time), NormTeamOf[f.home],
      NormTeamOf[f.away]>>

\* dedupe's grouping key.
GroupKey(f) ==
    <<f.date, _best_time_bucket(f.time), NormTeamOf[f.home],
      NormTeamOf[f.away], SlugOf[f.competition]>>

\* A sort key that ranks completeness above the source.
PreferKeyCompletenessFirst(x) ==
    <<_completeness_points(x), SOURCE_PRIORITY(x.source), x.updated_at>>

\* dedupe's sort key within a group.
PreferKey(x) ==
    <<SOURCE_PRIORITY(x.source), _completeness_points(x), x.updated_at>>

\* The last record of the ascending sort: of equal candidates, the last.
ChosenLast(group) ==
    StableSort(group, [i \in 1..Len(group) |-> PreferKey(group[i])])[Len(group)]

\* The record of the group that was seen first.
ChosenFirstSeen(group) == group[1]

\* A chosen record completed with the venue of another record of its group.
ChosenCompleted(group) ==
    [StableSortReversed(group, [i \in 1..Len(group) |-> PreferKey(group[i])])[1]
        EXCEPT !.venue =
            StableSort(group, [i \in 1..Len(group) |-> PreferKey(group[i])])[1].venue]

\* group.sort(key=..., reverse=True); chosen = group[0]
Chosen(group) ==
    StableSortReversed(group, [i \in 1..Len(group) |-> PreferKey(group[i])])[1]

\* dict.items() yields the keys in the order of their first insertion; the
\* result lists, per first occurrence of a key, the indices of its group.
FirstOfKey(keys) ==
    SelectSeq([i \in 1..Len(keys) |-> i],
              LAMBDA i : \A j \in 1..(i - 1) : keys[j] # keys[i])

\* by_key[key]: the records of fs whose key is k, in input order.
by_key(fs, keys, k) ==
    LET at == SelectSeq([i \in 1..Len(fs) |-> i], LAMBDA i : keys[i] = k)
    IN  [n \in 1..Len(at) |-> fs[at[n]]]

\* merged before its final sort: the chosen record of every group.
chosen_of(fs, keys, firsts) ==
    [n \in 1..Len(firsts) |-> Chosen(by_key(fs, keys, keys[firsts[n]]))]

\* dedupe, given the grouping key of every record.
dedupe_keyed(fs, keys) ==
    SortByDateTime(chosen_of(fs, keys, FirstOfKey(keys)))

dedupe(fs) == dedupe_keyed(fs, [i \in 1..Len(fs) |-> GroupKey(fs[i])])

\* The (home, away) key of collapse_future_duplicates.
PairKey(f) == <<NormTeamOf[f.home], NormTeamOf[f.away]>>

\* items_sorted[0] if a group has several items, else items[0].
first_item(g) == IF Len(g) = 1 THEN g[1] ELSE SortByDateTime(g)[1]

\* groups[k]: the records that are not finished and whose pair is k.
items_of(fs, pairs, open, k) ==
    LET at == SelectSeq(open, LAMBDA i : pairs[i] = k)
    IN  [n \in 1..Len(at) |-> fs[at[n]]]

\* A loop that fills out without the exemption of finished records.
kept_of_grouped(fs, pairs, keep_ids, groups) ==
    SelectSeq([i \in 1..Len(fs) |-> i],
        LAMBDA i : \/ (pairs[i] \in groups /\ fs[i].id \in keep_ids)
                   \/ pairs[i] \notin groups)

\* The loop that fills out, given keep_ids and the keys of groups.
kept_of(fs, pairs, keep_ids, groups) ==
    SelectSeq([i \in 1..Len(fs) |-> i],
        LAMBDA i : \/ fs[i].status = "FT"
                   \/ (pairs[i] \in groups /\ fs[i].id \in keep_ids)
                   \/ pairs[i] \notin groups)

\* collapse_future_duplicates, given the pair of every record and the
\* indices of the records that are not finished.
collapse_keyed(fs, pairs, open) ==
    LET out == kept_of(fs, pairs,
                   {first_item(items_of(fs, pairs, open, pairs[open[n]])).id :
                        n \in 1..Len(open)},
                   {pairs[open[n]] : n \in 1..Len(open)})
    IN  SortByDateTime([n \in 1..Len(out) |-> fs[out[n]]])

collapse_future_duplicates(fs) ==
    collapse_keyed(fs, [i \in 1..Len(fs) |-> PairKey(fs[i])],
        SelectSeq([i \in 1..Len(fs) |-> i], LAMBDA i : fs[i].status # "FT"))

\* The points of a lower-cased name t.
popularity_points(t) ==
    LET any(ws) == \E w \in ws : Contains(t, w)
    IN  (IF Contains(t, <<"a", "l", "l", "-", "i", "r", "e", "l", "a", "n", "d">>) THEN 100 ELSE 0)
        + (IF any({<<"u", "l", "s", "t", "e", "r">>, <<"m", "u", "n", "s", "t", "e", "r">>, <<"l", "e", "i", "n", "s", "t", "e", "r">>, <<"c", "o", "n", "n", "a", "c", "h", "t">>, <<"p", "r", "o", "v", "i", "n", "c", "i", "a", "l">>})
           THEN 80 ELSE 0)
        + (IF any({<<"n", "a", "t", "i", "o", "n", "a", "l", " ", "l", "e", "a", "g", "u", "e">>, <<"n", "f", "l">>, <<"n", "h", "l">>}) THEN 70 ELSE 0)
        + (IF Contains(t, <<"s", "e", "n", "i", "o", "r", " ", "c", "h", "a", "m", "p", "i", "o", "n", "s", "h", "i", "p">>) THEN 60 ELSE 0)
        + (IF Contains(t, <<"i", "n", "t", "e", "r", "m", "e", "d", "i", "a", "t", "e">>) THEN 50 ELSE 0)
        + (IF Contains(t, <<"j", "u", "n", "i", "o", "r">>) THEN 40 ELSE 0)
        + (IF any({<<"d", "i", "v", "i", "s", "i", "o", "n">>, <<"l", "e", "a", "g", "u", "e">>}) THEN 30 ELSE 0)
        + (IF Contains(t, <<"f", "r", "i", "e", "n", "d", "l", "y">>) THEN 10 ELSE 0)

popularity_score(n) == popularity_points(lower(n))

\* pop = popularity_score(name), on the competition names of the inputs.
PopularityOf == [n \in CompetitionNames |-> popularity_score(n)]

\* backend/utils.py: iso_z(datetime.fromisoformat(date + "T" + time + ":00")).
\* astimezone() reads a naive datetime as the host's local time; the result
\* is the UTC instant in minutes, whose order is that of the ISO string.
iso_z(date, time, host_utc_offset) ==
    date * 1440 + _minutes(time) - host_utc_offset

\* Competition(name, slug, popularity, match_count, first_kickoff) of the
\* items of one competition, first being items_sorted[0].
competition_of(c, items, first, host_utc_offset) ==
    [name |-> c,
     slug |-> SlugOf[c],
     popularity |-> PopularityOf[c],
     match_count |-> Len(items),
     first_kickoff |-> iso_z(first.date, first.time, host_utc_offset)]

\* A sort that ranks the match count above the popularity.
ranked_by_count(out) ==
    StableSort(out, [n \in 1..Len(out) |->
                        <<0 - out[n].match_count, 0 - out[n].popularity,
                          out[n].first_kickoff>>])

\* out.sort(key=lambda c: (-c.popularity, -c.match_count, c.first_kickoff))
ranked(out) ==
    StableSort(out, [n \in 1..Len(out) |->
                        <<0 - out[n].popularity, 0 - out[n].match_count,
                          out[n].first_kickoff>>])

\* A grouping by the slug of the competition name.
comps_by_slug(fs, c) ==
    SelectSeq(fs, LAMBDA f : SlugOf[f.competition] = SlugOf[c])

\* comps[name]
comps(fs, c) == SelectSeq(fs, LAMBDA f : f.competition = c)

\* competitions_from_fixtures, given the indices at which a competition
\* name occurs first (the order of comps.items()).
competitions_keyed(fs, names, host_utc_offset) ==
    ranked([n \in 1..Len(names) |->
               competition_of(fs[names[n]].competition,
                              comps(fs, fs[names[n]].competition),
                              SortByDateTime(comps(fs, fs[names[n]].competition))[1],
                              host_utc_offset)])

competitions_from_fixtures(fs, host_utc_offset) ==
    competitions_keyed(fs,
        SelectSeq([i \in 1..Len(fs) |-> i],
            LAMBDA i : \A j \in 1..(i - 1) :
                           fs[j].competition # fs[i].competition),
        host_utc_offset)

\* date.weekday() (Monday = 0) of the day d of November 2025; the 1st is a
\* Saturday.
weekday(d) == (d + 4) % 7

\* backend/utils.py: london_weekend_for(dt) = (sat, sun)
london_weekend_for(dt) ==
    <<dt + ((5 - weekday(dt)) % 7), dt + ((5 - weekday(dt)) % 7) + 1>>

\* comps[:3]
TopLimit == 3

\* weekend = [f for f in fixtures if sat <= f.date <= sun]
weekend_of(fs, sat_sun) ==
    SelectSeq(fs, LAMBDA f : sat_sun[1] <= f.date /\ f.date <= sat_sun[2])

\* comps[:3] of a list
first_three(cs) ==
    SubSeq(cs, 1, IF Len(cs) < TopLimit THEN Len(cs) ELSE TopLimit)

weekend_top_competitions(fs, dt, host_utc_offset) ==
    first_three(competitions_from_fixtures(
                    weekend_of(fs, london_weekend_for(dt)), host_utc_offset))

----------------------------------------------------------------------------
(* Bounds and input sets *)

\* is_placeholder_team is applied to the names made of at most MaxWords of
\* these words (some of them phrases, one empty), joined by a separator.
MaxWords == 2

Words ==
    {<< >>, <<"D", "u", "b", "l", "i", "n">>,
     <<"S", "t", ".", " ", "V", "i", "n", "c", "e", "n", "t", "'", "s">>,
     <<"L", "i", "v", "e", "r", "p", "o", "o", "l">>,
     <<"B", "l", "a", "c", "k", "p", "o", "o", "l">>,
     <<"G", "a", "e", "l", "s">>, <<"K", "e", "r", "r", "y">>,
     <<"S", "l", "i", "g", "o">>, <<"C", "a", "v", "a", "n">>,
     <<"N", "'a", " ", "F", "i", "a", "n", "n", "a">>, <<"T", "B", "D">>,
     <<"b", "y", "e">>, <<"G", "o", "o", "d", "b", "y", "e">>,
     <<"u", "n", "k", "n", "o", "w", "n">>,
     <<"W", "i", "n", "n", "e", "r", " ", "o", "f", " ", "Q", "u", "a", "r", "t", "e", "r", "-", "F", "i", "n", "a", "l", " ", "1">>,
     <<"R", "u", "n", "n", "e", "r", "-", "u", "p">>,
     <<"4", "t", "h", " ", "p", "l", "a", "c", "e">>,
     <<"F", "i", "n", "a", "l">>, <<"R", "o", "u", "n", "d", " ", "2">>,
     <<"G", "r", "o", "u", "p", " ", "A">>, <<"P", "o", "o", "l">>, <<"A">>,
     <<"2">>, <<"Q", "F">>, <<"R", "2">>,
     <<"C", "o", "r", "k", " ", "v", " ", "M", "a", "y", "o">>}

Separators ==
    {<<" ">>, <<"/">>, <<"-">>, <<" ", "/", " ">>}

RECURSIVE NamesOf(_)
NamesOf(k) ==
    IF k = 1 THEN Words
    ELSE LET shorter == NamesOf(k - 1)
         IN  shorter \cup {n \o sep \o w :
                               n \in shorter, sep \in Separators, w \in Words}

\* The pair of times handed to dedupe differs by at most MaxSkew minutes.
MaxSkew == 3

Times == {<<h, m>> : h \in 0..23, m \in 0..59}

\* A list handed to dedupe holds at most MaxLen fixtures.
MaxLen == 3

Fx(id, date, time, competition, home, away, venue, status, score, source, updated_at) ==
    [id |-> id, date |-> date, time |-> time, competition |-> competition,
     home |-> home, away |-> away, venue |-> venue, status |-> status,
     score |-> score, source |-> source, updated_at |-> updated_at,
     search_index |-> None]

CrokePark == <<"C", "r", "o", "k", "e", " ", "P", "a", "r", "k">>

Sources == {"gaa_gms", "clubzap", "ics", "scraper"}

\* A record of the group 2025-11-08, bucket 19:30, Dublin v Kerry, div-1.
Cand(venue, status, score, source, updated_at) ==
    Fx("1", 8, <<19, 30>>, <<"D", "i", "v", " ", "1">>, <<"D", "u", "b", "l", "i", "n">>, <<"K", "e", "r", "r", "y">>, venue, status,
       score, source, updated_at)

\* Candidates of that group. From the scraper: completeness 0, 1 (venue,
\* newer), 2 (score), 3 as PP with venue and score and 3 as FT alone, both
\* older and newer. From each other source a poor old record and a rich
\* new one (gaa_gms: the poor one only).
Candidates ==
    {Cand(None, "scheduled", << >>, "scraper", 1),
     Cand(CrokePark, "scheduled", << >>, "scraper", 2),
     Cand(None, "scheduled", <<"1", "-", "1", "0">>, "scraper", 1),
     Cand(CrokePark, "PP", <<"1", "-", "1", "0">>, "scraper", 1),
     Cand(CrokePark, "PP", <<"1", "-", "1", "0">>, "scraper", 2),
     Cand(None, "FT", << >>, "scraper", 1),
     Cand(None, "FT", << >>, "scraper", 2),
     Cand(None, "scheduled", << >>, "gaa_gms", 1),
     Cand(CrokePark, "FT", <<"1", "-", "1", "0">>, "clubzap", 2),
     Cand(None, "scheduled", << >>, "clubzap", 1),
     Cand(CrokePark, "FT", <<"1", "-", "1", "0">>, "ics", 2),
     Cand(None, "scheduled", << >>, "ics", 1)}

\* The same match as another source spells it (same grouping key), bare
\* and complete, and the matches next to it: another bucket, date, order of
\* the teams and competition.
Variants ==
    {Fx("2", 8, <<19, 32>>, <<"D", "i", "v", ".", " ", "1">>, <<"'A", "t", "h">>, <<"K", "e", "r", "r", "y">>, None, "scheduled",
        << >>, "scraper", 1),
     Fx("2", 8, <<19, 32>>, <<"D", "i", "v", ".", " ", "1">>, <<"'A", "t", "h">>, <<"K", "e", "r", "r", "y">>, CrokePark, "FT",
        <<"1", "-", "1", "0">>, "scraper", 2),
     Fx("3", 8, <<19, 33>>, <<"D", "i", "v", " ", "1">>, <<"D", "u", "b", "l", "i", "n">>, <<"K", "e", "r", "r", "y">>, None, "scheduled",
        << >>, "scraper", 1),
     Fx("4", 7, <<19, 33>>, <<"D", "i", "v", " ", "1">>, <<"D", "u", "b", "l", "i", "n">>, <<"K", "e", "r", "r", "y">>, None, "scheduled",
        << >>, "scraper", 1),
     Fx("5", 8, <<19, 30>>, <<"D", "i", "v", " ", "1">>, <<"K", "e", "r", "r", "y">>, <<"D", "u", "b", "l", "i", "n">>, None, "scheduled",
        << >>, "scraper", 1),
     Fx("6", 8, <<19, 30>>, <<"D", "i", "v", " ", "2">>, <<"D", "u", "b", "l", "i", "n">>, <<"K", "e", "r", "r", "y">>, None, "scheduled",
        << >>, "gaa_gms", 1)}

DedupePool == Candidates \cup Variants

ListsOf(pool, n) == UNION {[1..k -> pool] : k \in 0..n}

----------------------------------------------------------------------------
(* is_placeholder_team applied to a name *)

InitPlaceholder ==
    /\ pc = "classify"
    /\ name \in NamesOf(MaxWords)
    /\ verdict = FALSE
    /\ hhmm = << >> /\ bucket = -1 /\ fixtures = << >> /\ merged = << >>
    /\ again = << >> /\ cfg = << >> /\ upcoming = << >> /\ recent = << >>
    /\ fallback = FALSE /\ competitions = << >>
    /\ filtered = << >> /\ today = 0 /\ weekend = << >> /\ top = << >>
    /\ files = << >> /\ prior = << >> /\ handle = << >> /\ seen = << >>
    /\ fetched = << >>

Classify ==
    /\ pc = "classify"
    /\ verdict' = is_placeholder_team(name)
    /\ pc' = "classified"
    /\ UNCHANGED <<name, hhmm, bucket, fixtures, merged, again, cfg, upcoming,
                   recent, fallback, competitions, filtered,
                   today, weekend, top,
                   files, prior, handle, seen, fetched>>

SpecPlaceholder == InitPlaceholder /\ [][Classify]_vars

----------------------------------------------------------------------------
(* _best_time_bucket, and dedupe on two records that differ in time only *)

At(t) ==
    Fx("1", 8, t, <<"D", "i", "v", " ", "1">>, <<"D", "u", "b", "l", "i", "n">>, <<"K", "e", "r", "r", "y">>, None, "scheduled", << >>,
       "scraper", 1)

InitBucket ==
    /\ pc = "bucket"
    /\ \E t1 \in Times, skew \in (0 - MaxSkew)..MaxSkew :
          /\ _minutes(t1) + skew \in 0..1439
          /\ hhmm = <<t1, <<(_minutes(t1) + skew) \div 60,
                            (_minutes(t1) + skew) % 60>> >>
    /\ bucket = -1
    /\ name = << >> /\ verdict = FALSE /\ fixtures = << >> /\ merged = << >>
    /\ again = << >> /\ cfg = << >> /\ upcoming = << >> /\ recent = << >>
    /\ fallback = FALSE /\ competitions = << >>
    /\ filtered = << >> /\ today = 0 /\ weekend = << >> /\ top = << >>
    /\ files = << >> /\ prior = << >> /\ handle = << >> /\ seen = << >>
    /\ fetched = << >>

Bucket ==
    /\ pc = "bucket"
    /\ bucket' = _best_time_bucket(hhmm[1])
    /\ pc' = "bucketed"
    /\ UNCHANGED <<name, verdict, hhmm, fixtures, merged, again, cfg, upcoming,
                   recent, fallback, competitions, filtered,
                   today, weekend, top,
                   files, prior, handle, seen, fetched>>

DedupePair ==
    /\ pc = "bucketed"
    /\ fixtures' = <<At(hhmm[1]), At(hhmm[2])>>
    /\ merged' = dedupe(fixtures')
    /\ pc' = "deduped"
    /\ UNCHANGED <<name, verdict, hhmm, bucket, again, cfg, upcoming, recent,
                   fallback, competitions, filtered,
                   today, weekend, top,
                   files, prior, handle, seen, fetched>>

SpecBucket == InitBucket /\ [][Bucket \/ DedupePair]_vars

----------------------------------------------------------------------------
(* dedupe applied to a list, and to its own result *)

InitDedupe ==
    /\ pc = "dedupe"
    /\ fixtures \in ListsOf(DedupePool, MaxLen)
    /\ merged = << >> /\ again = << >>
    /\ name = << >> /\ verdict = FALSE /\ hhmm = << >> /\ bucket = -1
    /\ cfg = << >> /\ upcoming = << >> /\ recent = << >>
    /\ fallback = FALSE /\ competitions = << >>
    /\ filtered = << >> /\ today = 0 /\ weekend = << >> /\ top = << >>
    /\ files = << >> /\ prior = << >> /\ handle = << >> /\ seen = << >>
    /\ fetched = << >>

Dedupe ==
    /\ pc = "dedupe"
    /\ merged' = dedupe(fixtures)
    /\ pc' = "deduped"
    /\ UNCHANGED <<name, verdict, hhmm, bucket, fixtures, again, cfg, upcoming,
                   recent, fallback, competitions, filtered,
                   today, weekend, top,
                   files, prior, handle, seen, fetched>>

DedupeAgain ==
    /\ pc = "deduped"
    /\ again' = dedupe(merged)
    /\ pc' = "again"
    /\ UNCHANGED <<name, verdict, hhmm, bucket, fixtures, merged, cfg,
                   upcoming, recent, fallback, competitions, filtered,
                   today, weekend, top,
                   files, prior, handle, seen, fetched>>

SpecDedupe == InitDedupe /\ [][Dedupe \/ DedupeAgain]_vars

----------------------------------------------------------------------------
(* The claims about dedupe, stated in the specification's words *)

\* The grouping key of the specification: (date, timeBucket(time),
\* normalised home, normalised away, competition slug).
SpecKey(f) ==
    <<f.date, _best_time_bucket(f.time), NormTeamOf[f.home],
      NormTeamOf[f.away], SlugOf[f.competition]>>

\* sourcePriority: gaa_gms > clubzap > ics > scraper.
SpecPriority(source) ==
    CASE source = "gaa_gms" -> 4
      [] source = "clubzap" -> 3
      [] source = "ics"     -> 2
      [] source = "scraper" -> 1

\* completenessScore: 1 if venue present + 3 if FT + 2 if score non-empty.
SpecCompleteness(f) ==
    (IF f.venue # None /\ f.venue # << >> THEN 1 ELSE 0)
    + (IF f.status = "FT" THEN 3 ELSE 0)
    + (IF f.score # << >> THEN 2 ELSE 0)

SpecTuple(f) == <<SpecPriority(f.source), SpecCompleteness(f), f.updated_at>>

Deduped == pc \in {"deduped", "again"}

\* The grouping keys and the tuples of a list, position by position.
KeysIn(s) == [i \in 1..Len(s) |-> SpecKey(s[i])]

TuplesIn(s) == [i \in 1..Len(s) |-> SpecTuple(s[i])]

\* The positions of the group with key k in a list whose keys are `keys`.
GroupOf(k, keys) == {i \in 1..Len(keys) : keys[i] = k}

\* The positions of that group whose tuple is maximal in the group.
BestOf(k, keys, tuples) ==
    {i \in GroupOf(k, keys) :
        \A j \in GroupOf(k, keys) : ~TupleLess(tuples[i], tuples[j])}

\* C1: the record dedupe keeps for a group is a record of the group whose
\* (sourcePriority, completenessScore, updated_at) is lexicographically
\* maximal in the group, and every group of the input has a kept record.
C1_KeepsMaximal ==
    Deduped =>
        LET keys   == KeysIn(fixtures)
            tuples == TuplesIn(fixtures)
            kept   == KeysIn(merged)
        IN  /\ \A n \in 1..Len(merged) :
                   \E i \in BestOf(kept[n], keys, tuples) :
                       merged[n] = fixtures[i]
            /\ \A i \in 1..Len(fixtures) : \E n \in 1..Len(merged) :
                   kept[n] = keys[i]

\* A scraper record with venue, FT and score, updated later, loses to a
\* bare gaa_gms record updated earlier.
C1_Witness ==
    /\ pc = "deduped"
    /\ Len(merged) = 1
    /\ merged[1].source = "gaa_gms"
    /\ SpecCompleteness(merged[1]) = 0
    /\ \E i \in 1..Len(fixtures) :
          /\ fixtures[i].source = "scraper"
          /\ SpecCompleteness(fixtures[i]) = 6
          /\ fixtures[i].updated_at > merged[1].updated_at

\* C2: when several candidates of a group share the maximal tuple, dedupe
\* keeps the one that comes first in the input list.
C2_FirstOfTies ==
    Deduped =>
        LET keys   == KeysIn(fixtures)
            tuples == TuplesIn(fixtures)
        IN  \A n \in 1..Len(merged) :
                LET best == BestOf(SpecKey(merged[n]), keys, tuples)
                IN  /\ best # {}
                    /\ merged[n] =
                         fixtures[CHOOSE i \in best : \A j \in best : i <= j]

\* Two different records tie on the maximal tuple; the first one is kept.
C2_Witness ==
    /\ pc = "deduped"
    /\ Len(merged) = 1
    /\ \E i, j \in BestOf(SpecKey(merged[1]), KeysIn(fixtures),
                          TuplesIn(fixtures)) :
          /\ i < j
          /\ fixtures[i] # fixtures[j]
          /\ merged[1] = fixtures[i]

\* C3: the output holds exactly one record per grouping key of the input,
\* no two output records share a key, and records whose competition slugs
\* differ are represented by different output records.
C3_OnePerKey ==
    Deduped =>
        LET keys == KeysIn(fixtures)
            kept == KeysIn(merged)
            slug == [i \in 1..Len(fixtures) |-> SlugOf[fixtures[i].competition]]
        IN  /\ {kept[n] : n \in 1..Len(merged)}
                 = {keys[i] : i \in 1..Len(fixtures)}
            /\ Len(merged) = Cardinality({keys[i] : i \in 1..Len(fixtures)})
            /\ \A a, b \in 1..Len(merged) : a # b => kept[a] # kept[b]
            /\ \A i, j \in 1..Len(fixtures) :
                   slug[i] # slug[j]
                   => \E a, b \in 1..Len(merged) :
                          a # b /\ kept[a] = keys[i] /\ kept[b] = keys[j]

\* Three records: two of one group, and one that differs from them in the
\* competition slug only.
C3_Witness ==
    /\ pc = "deduped"
    /\ Len(fixtures) = 3
    /\ Len(merged) = 2
    /\ merged[1].date = merged[2].date
    /\ _best_time_bucket(merged[1].time) = _best_time_bucket(merged[2].time)
    /\ NormTeamOf[merged[1].home] = NormTeamOf[merged[2].home]
    /\ NormTeamOf[merged[1].away] = NormTeamOf[merged[2].away]
    /\ SlugOf[merged[1].competition] # SlugOf[merged[2].competition]

\* C4: dedupe applied to its own result returns it unchanged: the same
\* records in the same order.
C4_Idempotent == pc = "again" => again = merged

\* A run in which dedupe merged records and kept two with the same (date,
\* time), then ran again.
C4_Witness ==
    /\ pc = "again"
    /\ Len(fixtures) = 3
    /\ Len(merged) = 2
    /\ DateTimeKey(merged[1]) = DateTimeKey(merged[2])
    /\ again = merged

\* f (with grouping key kf) was in the input and the record kept for its
\* group is m (with key km), another record of the same source that is not
\* finished.
DiscardedFor(f, kf, m, km) ==
    /\ f.status = "FT"
    /\ m.status \in {"scheduled", "PP"}
    /\ f.source = m.source
    /\ kf = km

\* C5 as claimed: an FT record is never discarded in favour of a
\* same-source record with status scheduled or PP.
C5_FTNeverDiscarded ==
    Deduped =>
        LET keys == KeysIn(fixtures)
            kept == KeysIn(merged)
        IN  \A i \in 1..Len(fixtures) : \A n \in 1..Len(merged) :
                ~DiscardedFor(fixtures[i], keys[i], merged[n], kept[n])

\* C5 as amended: an FT record is discarded in favour of a same-source
\* record with status scheduled or PP only when that record has both a
\* venue and a score, the FT record has neither, and the FT record was not
\* updated later.
C5_FTDiscardedOnlyOnTie ==
    Deduped =>
        LET keys == KeysIn(fixtures)
            kept == KeysIn(merged)
        IN  \A i \in 1..Len(fixtures) : \A n \in 1..Len(merged) :
                DiscardedFor(fixtures[i], keys[i], merged[n], kept[n]) =>
                    /\ merged[n].venue \notin {None, << >>}
                    /\ merged[n].score # << >>
                    /\ fixtures[i].venue \in {None, << >>}
                    /\ fixtures[i].score = << >>
                    /\ fixtures[i].updated_at <= merged[n].updated_at

\* An FT record with neither venue nor score is kept over a same-source
\* PP record with venue and score that was updated earlier.
C5_Witness ==
    /\ pc = "deduped"
    /\ Len(merged) = 1
    /\ merged[1].status = "FT"
    /\ merged[1].venue = None
    /\ merged[1].score = << >>
    /\ \E i \in 1..Len(fixtures) :
          /\ fixtures[i].source = merged[1].source
          /\ fixtures[i].status = "PP"
          /\ fixtures[i].venue # None
          /\ fixtures[i].score # << >>
          /\ fixtures[i].updated_at < merged[1].updated_at

\* C7: dedupe's result is sorted ascending by (date, time), and an empty
\* input gives an empty output.
C7_SortedOutput ==
    Deduped =>
        /\ \A n \in 1..(Len(merged) - 1) :
               ~TupleLess(<<merged[n + 1].date, _minutes(merged[n + 1].time)>>,
                          <<merged[n].date, _minutes(merged[n].time)>>)
        /\ (fixtures = << >> => merged = << >>)

\* Three groups handed over in descending order of (date, time), on two
\* dates.
C7_Witness ==
    /\ pc = "deduped"
    /\ Len(merged) = 3
    /\ merged[1] = fixtures[3]
    /\ merged[3] = fixtures[1]
    /\ merged[1].date < merged[2].date
    /\ merged[2].time # merged[3].time

----------------------------------------------------------------------------
(* The claim about the time bucket *)

Abs(x) == IF x < 0 THEN 0 - x ELSE x

\* C6: the bucket of a time is the multiple of 5 nearest to its minutes
\* since midnight: a multiple of 5 in 0..1440 within 2 minutes of it; 19:30
\* and 19:32 both give 1170, and two records that differ in these two times
\* only are merged.
C6_NearestFive ==
    pc \in {"bucketed", "deduped"} =>
        LET mins == hhmm[1][1] * 60 + hhmm[1][2]
        IN  /\ bucket \in 0..1440
            /\ bucket % 5 = 0
            /\ Abs(bucket - mins) <= 2
            /\ \A k \in 0..288 : Abs(bucket - mins) <= Abs(5 * k - mins)
            /\ (hhmm[1] \in {<<19, 30>>, <<19, 32>>} => bucket = 1170)
            /\ (pc = "deduped" /\ hhmm = << <<19, 32>>, <<19, 30>> >>
                => Len(merged) = 1)

C6_Witness ==
    /\ pc = "deduped"
    /\ hhmm = << <<19, 32>>, <<19, 30>> >>
    /\ bucket = 1170
    /\ Len(merged) = 1

----------------------------------------------------------------------------
(* The claims about is_placeholder_team, stated in the specification's words *)

IsAlnum(c) == c \in LowerLetters \cup UpperLetters \cup Accented \cup Digits

\* w is a whole word of t: it is not continued by a letter or digit on
\* either side.
WholeWord(t, w) ==
    \E i \in 1..Len(t) :
        /\ MatchAt(t, i, w)
        /\ (i = 1 \/ ~IsAlnum(t[i - 1]))
        /\ (i + Len(w) > Len(t) \/ ~IsAlnum(t[i + Len(w)]))

\* w starts a word of t and a character of the class follows it, after
\* any number of spaces ("group A", "pool 2").
WordThenClass(t, w, class) ==
    \E i \in 1..Len(t) :
        /\ MatchAt(t, i, w)
        /\ (i = 1 \/ ~IsAlnum(t[i - 1]))
        /\ \E p \in (i + Len(w))..Len(t) :
              /\ t[p] \in class
              /\ \A q \in (i + Len(w))..(p - 1) : t[q] = " "

\* The name has the form "X/Y": a slash with a non-empty alternative on
\* either side.
SlashAlternatives(n) ==
    \E k \in 1..Len(n) :
        /\ n[k] = "/"
        /\ strip(SubSeq(n, 1, k - 1)) # << >>
        /\ strip(SubSeq(n, k + 1, Len(n))) # << >>

\* A whole-word versus marker: v, vs, versus.
HasVersus(n) == \E w \in {<<"v">>, <<"v", "s">>, <<"v", "e", "r", "s", "u", "s">>} : WholeWord(lower(n), w)

\* C9: every name of the form "X/Y" without a whole-word versus marker is a
\* placeholder.
C9_SlashFormIsPlaceholder ==
    (pc = "classified" /\ SlashAlternatives(name) /\ ~HasVersus(name))
        => verdict = TRUE

\* The markers of the claim, on the lowered name.
IsolatedToken(t) ==
    \E w \in {<<"t", "b", "d">>, <<"t", "b", "a">>, <<"t", "b", "c">>, <<"b", "y", "e">>, <<"u", "n", "k", "n", "o", "w", "n">>, <<"t", "o", " ", "b", "e", " ", "c", "o", "n", "f", "i", "r", "m", "e", "d">>,
              <<"t", "o", " ", "b", "e", " ", "d", "e", "c", "i", "d", "e", "d">>} : WholeWord(t, w)

PlaceholderPhrase(t) ==
    \E w \in {<<"w", "i", "n", "n", "e", "r">>, <<"l", "o", "s", "e", "r">>, <<"r", "u", "n", "n", "e", "r", "-", "u", "p">>, <<"r", "u", "n", "n", "e", "r", " ", "u", "p">>, <<"r", "u", "n", "n", "e", "r", "s", "-", "u", "p">>,
              <<"r", "u", "n", "n", "e", "r", "s", " ", "u", "p">>, <<"t", "o", "p", " ", "t", "e", "a", "m">>, <<"1", "s", "t", " ", "p", "l", "a", "c", "e">>, <<"2", "n", "d", " ", "p", "l", "a", "c", "e">>,
              <<"3", "r", "d", " ", "p", "l", "a", "c", "e">>, <<"4", "t", "h", " ", "p", "l", "a", "c", "e">>, <<"f", "i", "r", "s", "t", " ", "p", "l", "a", "c", "e">>, <<"s", "e", "c", "o", "n", "d", " ", "p", "l", "a", "c", "e">>,
              <<"t", "h", "i", "r", "d", " ", "p", "l", "a", "c", "e">>} : Contains(t, w)

StageMarker(t) ==
    \/ \E w \in {<<"q", "u", "a", "r", "t", "e", "r", " ", "f", "i", "n", "a", "l">>, <<"s", "e", "m", "i", " ", "f", "i", "n", "a", "l">>, <<"f", "i", "n", "a", "l">>, <<"p", "r", "e", "l", "i", "m">>,
                 <<"p", "r", "e", "l", "i", "m", "i", "n", "a", "r", "y">>, <<"q", "u", "a", "l", "i", "f", "i", "e", "r">>, <<"p", "l", "a", "y", "-", "o", "f", "f">>, <<"p", "l", "a", "y", " ", "o", "f", "f">>,
                 <<"p", "l", "a", "y", "o", "f", "f">>} : Contains(t, w)
    \/ \E i \in 1..Len(t) :
          /\ MatchAt(t, i, <<"r", "o", "u", "n", "d">>)
          /\ \E p \in (i + 5)..Len(t) :
                /\ t[p] \in Digits
                /\ \A q \in (i + 5)..(p - 1) : t[q] = " "

GroupMarker(t) ==
    \E w \in {<<"g", "r", "o", "u", "p">>, <<"p", "o", "o", "l">>} : WordThenClass(t, w, LowerLetters \cup Digits)

StageCode(t) ==
    \/ \E w \in {<<"q", "f">>, <<"s", "f">>, <<"r", "f">>} : WholeWord(t, w)
    \/ \E d1 \in Digits : WholeWord(t, <<"r", d1>>)
    \/ \E d1, d2 \in Digits : WholeWord(t, <<"r", d1, d2>>)

HasMarker(n) ==
    LET t == lower(n)
    IN  \/ IsolatedToken(t)
        \/ PlaceholderPhrase(t)
        \/ StageMarker(t)
        \/ GroupMarker(t)
        \/ StageCode(t)

\* A real team name: it has a letter, no slash and none of the markers.
RealTeamName(n) ==
    /\ \E i \in 1..Len(n) : n[i] \in LowerLetters \cup UpperLetters \cup Accented
    /\ \A i \in 1..Len(n) : n[i] # "/"
    /\ ~HasMarker(n)

\* C10: a name with a marker is a placeholder, a real team name is not; in
\* particular "Winner of Quarter-Final 1" and "Group A" are placeholders,
\* "Dublin" and "St. Vincent's" are not.
C10_MarkersDecide ==
    pc = "classified" =>
        /\ (HasMarker(name) => verdict = TRUE)
        /\ (RealTeamName(name) => verdict = FALSE)
        /\ (name \in {<<"W", "i", "n", "n", "e", "r", " ", "o", "f", " ", "Q", "u", "a", "r", "t", "e", "r", "-", "F", "i", "n", "a", "l", " ", "1">>, <<"G", "r", "o", "u", "p", " ", "A">>} => verdict = TRUE)
        /\ (name \in {<<"D", "u", "b", "l", "i", "n">>, <<"S", "t", ".", " ", "V", "i", "n", "c", "e", "n", "t", "'", "s">>} => verdict = FALSE)

----------------------------------------------------------------------------
(* backend/main.py: build_cmd *)

\* is_placeholder_team on the team names of the build's input.
PlaceholderOf == [n \in TeamNames |-> is_placeholder_team(n)]

\* A filter that looks at the away team only.
without_placeholder_aways(fs) ==
    SelectSeq(fs, LAMBDA f : ~PlaceholderOf[f.away])

\* A filter that looks at the home team only.
without_placeholder_homes(fs) ==
    SelectSeq(fs, LAMBDA f : ~PlaceholderOf[f.home])

\* [f for f in merged if not (is_placeholder_team(f.home) or
\*                            is_placeholder_team(f.away))]
without_placeholders(fs) ==
    SelectSeq(fs, LAMBDA f : ~(PlaceholderOf[f.home] \/ PlaceholderOf[f.away]))

\* now.date(), as the day of November 2025.
now == 10

\* A window that grants the scraper's horizon to every source.
upcoming_any_source(fs, c) ==
    SelectSeq(fs, LAMBDA f :
        /\ f.date >= now
        /\ \/ f.date <= now + c.days_forward
           \/ f.date <= now + c.scraper_days_forward)

\* upcoming: from today to the horizon, the scraper's horizon being its own.
upcoming_of(fs, c) ==
    SelectSeq(fs, LAMBDA f :
        /\ f.date >= now
        /\ \/ f.date <= now + c.days_forward
           \/ f.source = "scraper" /\ f.date <= now + c.scraper_days_forward)

\* A primary path without the upper end of the results window.
recent_to_any_date(fs, c) ==
    SelectSeq(fs, LAMBDA f :
        /\ now - c.results_days_back <= f.date
        /\ (f.status = "FT" \/ Len(strip(IF f.score = None THEN << >> ELSE f.score)) > 0))

\* recent, primary path: inside the results window, finished or scored.
recent_of(fs, c) ==
    SelectSeq(fs, LAMBDA f :
        /\ now - c.results_days_back <= f.date
        /\ f.date <= now
        /\ (f.status = "FT" \/ Len(strip(IF f.score = None THEN << >> ELSE f.score)) > 0))

\* candidates[:50]
FallbackLimit == 50

\* A fallback that lists the oldest finished fixtures first.
fallback_oldest_first(fs, c) ==
    LET candidates == SelectSeq(fs, LAMBDA f :
                          /\ f.status = "FT"
                          /\ f.date >= now - c.results_fallback_days)
        sorted == StableSort(candidates,
                      [i \in 1..Len(candidates) |-> DateTimeKey(candidates[i])])
    IN  SubSeq(sorted, 1, IF Len(sorted) < FallbackLimit THEN Len(sorted)
                          ELSE FallbackLimit)

\* A fallback that takes the fixtures of every status.
fallback_any_status(fs, c) ==
    LET candidates == SelectSeq(fs, LAMBDA f :
                          f.date >= now - c.results_fallback_days)
        sorted == StableSortReversed(candidates,
                      [i \in 1..Len(candidates) |-> DateTimeKey(candidates[i])])
    IN  SubSeq(sorted, 1, IF Len(sorted) < FallbackLimit THEN Len(sorted)
                          ELSE FallbackLimit)

\* recent, fallback path: the latest finished fixtures of a broader window.
fallback_of(fs, c) ==
    LET candidates == SelectSeq(fs, LAMBDA f :
                          /\ f.status = "FT"
                          /\ f.date >= now - c.results_fallback_days)
        sorted == StableSortReversed(candidates,
                      [i \in 1..Len(candidates) |-> DateTimeKey(candidates[i])])
    IN  SubSeq(sorted, 1, IF Len(sorted) < FallbackLimit THEN Len(sorted)
                          ELSE FallbackLimit)

\* config.yaml, and the UTC offset (minutes) of the machine that builds: the
\* scraper's horizon equal to days_forward on a machine at UTC, and wider
\* on a machine at UTC+2.
Configs ==
    {[days_forward |-> 1, results_days_back |-> 1, scraper_days_forward |-> 1,
      results_fallback_days |-> 3, host_utc_offset |-> 0],
     [days_forward |-> 1, results_days_back |-> 1, scraper_days_forward |-> 2,
      results_fallback_days |-> 3, host_utc_offset |-> 120]}

DK(id, date, time, status, score, source) ==
    Fx(id, date, time, <<"D", "i", "v", " ", "1">>, <<"D", "u", "b", "l", "i", "n">>, <<"K", "e", "r", "r", "y">>, None, status, score,
       source, 1)

\* The combined cache: Dublin v Kerry scheduled inside the horizon, again
\* later under the same id and under another spelling, finished inside the
\* results window, inside the fallback window only, today and in the future,
\* scheduled in the past; a second pair in a second competition inside the
\* horizon, today with a score, beyond the horizon from a source that is not
\* the scraper, and yesterday with a blank score; and records whose home or
\* away team is a placeholder, empty or blank, the last of them an event of
\* the calendar feed whose summary names one team only.
BuildPool ==
    {DK("1", now + 1, <<14, 0>>, "scheduled", << >>, "gaa_gms"),
     DK("1", now + 2, <<14, 0>>, "scheduled", << >>, "scraper"),
     Fx("15", now + 1, <<14, 2>>, <<"D", "i", "v", ".", " ", "1">>, <<"'A", "t", "h">>, <<"K", "e", "r", "r", "y">>, CrokePark,
        "scheduled", << >>, "scraper", 2),
     DK("3", now - 1, <<14, 0>>, "FT", <<"1", "-", "1", "0">>, "gaa_gms"),
     DK("4", now - 3, <<14, 0>>, "FT", <<"1", "-", "1", "0">>, "clubzap"),
     DK("8", now, <<14, 0>>, "FT", <<"1", "-", "1", "0">>, "gaa_gms"),
     DK("12", now + 1, <<16, 0>>, "FT", <<"1", "-", "1", "0">>, "ics"),
     DK("9", now - 1, <<18, 0>>, "scheduled", << >>, "ics"),
     Fx("13", now + 1, <<12, 0>>, <<"D", "i", "v", " ", "2">>, <<"C", "o", "r", "k">>, <<"K", "e", "r", "r", "y">>, None,
        "scheduled", << >>, "gaa_gms", 1),
     Fx("14", now, <<12, 0>>, <<"D", "i", "v", " ", "2">>, <<"C", "o", "r", "k">>, <<"K", "e", "r", "r", "y">>, None,
        "scheduled", <<"1", "-", "1", "0">>, "clubzap", 1),
     Fx("5", now + 1, <<15, 0>>, <<"D", "i", "v", " ", "1">>, <<"T", "B", "D">>, <<"K", "e", "r", "r", "y">>, None,
        "scheduled", << >>, "ics", 1),
     Fx("6", now - 1, <<15, 0>>, <<"D", "i", "v", " ", "1">>, <<"K", "e", "r", "r", "y">>, <<"T", "B", "D">>, None,
        "FT", <<"1", "-", "1", "0">>, "gaa_gms", 1),
     Fx("7", now - 3, <<15, 0>>, <<"D", "i", "v", " ", "1">>, <<"T", "B", "D">>, <<"K", "e", "r", "r", "y">>, None,
        "FT", <<"1", "-", "1", "0">>, "scraper", 1),
     Fx("10", now + 1, <<17, 0>>, <<"D", "i", "v", " ", "1">>, << >>, <<"K", "e", "r", "r", "y">>, None,
        "scheduled", << >>, "ics", 1),
     Fx("11", now + 1, <<17, 0>>, <<"D", "i", "v", " ", "1">>, <<" ">>, <<"K", "e", "r", "r", "y">>, None,
        "scheduled", << >>, "ics", 1),
     Fx("16", now + 2, <<12, 0>>, <<"D", "i", "v", " ", "2">>, <<"C", "o", "r", "k">>, <<"K", "e", "r", "r", "y">>, None,
        "scheduled", << >>, "gaa_gms", 1),
     Fx("17", now - 1, <<12, 0>>, <<"D", "i", "v", " ", "2">>, <<"C", "o", "r", "k">>, <<"K", "e", "r", "r", "y">>, None,
        "scheduled", <<" ">>, "ics", 1),
     Fx("18", now, <<13, 0>>, <<"D", "i", "v", " ", "1">>, <<"D", "u", "b", "l", "i", "n">>, << >>, None,
        "FT", <<"1", "-", "1", "0">>, "ics", 1)}

\* An index of the original tokens only.
search_index_unmapped(f) ==
    norm_text(join(<<f.home, f.away, f.competition,
                     IF Truthy(f.venue) THEN f.venue ELSE << >> >>))

\* f.search_index of build_search_index: the joined text, a space, and its
\* mapped form, normalised.
search_index_of(f) ==
    norm_text(join(<<f.home, f.away, f.competition,
                     IF Truthy(f.venue) THEN f.venue ELSE << >> >>)
              \o <<" ">>
              \o map_irish_tokens(join(<<f.home, f.away, f.competition,
                      IF Truthy(f.venue) THEN f.venue ELSE << >> >>)))

\* search_index_of on the records of the combined cache, computed once.
SearchIndexOf == [f \in BuildPool |-> search_index_of(f)]

\* build_search_index(fixtures): every record gets its search_index.
RECURSIVE build_search_index(_)
build_search_index(fs) ==
    IF Len(fs) = 0 THEN << >>
    ELSE <<[fs[1] EXCEPT !.search_index = SearchIndexOf[fs[1]]]>>
         \o build_search_index(Tail(fs))

Init ==
    /\ pc = "loaded"
    /\ cfg \in Configs
    /\ fixtures \in ListsOf(BuildPool, MaxLen)
    /\ merged = << >> /\ upcoming = << >> /\ recent = << >>
    /\ fallback = FALSE /\ competitions = << >>
    /\ filtered = << >> /\ today = 0 /\ weekend = << >> /\ top = << >>
    /\ files = << >> /\ prior = << >> /\ handle = << >> /\ seen = << >>
    /\ fetched = << >>
    /\ name = << >> /\ verdict = FALSE /\ hhmm = << >> /\ bucket = -1
    /\ again = << >>

\* build_search_index(fixtures)
BuildSearchIndex ==
    /\ pc = "loaded"
    /\ fixtures' = build_search_index(fixtures)
    /\ pc' = "indexed"
    /\ UNCHANGED <<name, verdict, hhmm, bucket, merged, again, cfg, upcoming,
                   recent, fallback, competitions, filtered,
                   today, weekend, top,
                   files, prior, handle, seen, fetched>>

\* merged = dedupe(fixtures)
MergeDedupe ==
    /\ pc = "indexed"
    /\ merged' = dedupe(fixtures)
    /\ pc' = "merged"
    /\ UNCHANGED <<name, verdict, hhmm, bucket, fixtures, again, cfg, upcoming,
                   recent, fallback, competitions, filtered,
                   today, weekend, top,
                   files, prior, handle, seen, fetched>>

\* merged = [f for f in merged if not (... placeholder ...)]
DropPlaceholders ==
    /\ pc = "merged"
    /\ merged' = without_placeholders(merged)
    /\ filtered' = merged'
    /\ pc' = "filtered"
    /\ UNCHANGED <<name, verdict, hhmm, bucket, fixtures, again, cfg, upcoming,
                   recent, fallback, competitions, today, weekend, top,
                   files, prior, handle, seen, fetched>>

\* merged = collapse_future_duplicates(merged)
Collapse ==
    /\ pc = "filtered"
    /\ merged' = collapse_future_duplicates(merged)
    /\ pc' = "collapsed"
    /\ UNCHANGED <<name, verdict, hhmm, bucket, fixtures, again, cfg, upcoming,
                   recent, fallback, competitions, filtered,
                   today, weekend, top,
                   files, prior, handle, seen, fetched>>

\* Windowing: upcoming, recent, and the fallback when recent is empty.
Windowing ==
    /\ pc = "collapsed"
    /\ upcoming' = upcoming_of(merged, cfg)
    /\ fallback' = (recent_of(merged, cfg) = << >>)
    /\ recent' = IF fallback' THEN fallback_of(merged, cfg)
                 ELSE recent_of(merged, cfg)
    /\ pc' = "windowed"
    /\ UNCHANGED <<name, verdict, hhmm, bucket, fixtures, merged, again, cfg,
                   competitions, filtered,
                   today, weekend, top,
                   files, prior, handle, seen, fetched>>

\* competitions = competitions_from_fixtures(upcoming)
Competitions ==
    /\ pc = "windowed"
    /\ competitions' = competitions_from_fixtures(upcoming, cfg.host_utc_offset)
    /\ pc' = "built"
    /\ UNCHANGED <<name, verdict, hhmm, bucket, fixtures, merged, again, cfg,
                   upcoming, recent, fallback, filtered,
                   today, weekend, top,
                   files, prior, handle, seen, fetched>>

Next ==
    \/ BuildSearchIndex
    \/ MergeDedupe
    \/ DropPlaceholders
    \/ Collapse
    \/ Windowing
    \/ Competitions

Spec == Init /\ [][Next]_vars

----------------------------------------------------------------------------
(* The claim about the build *)

RealTeams(f) == ~PlaceholderOf[f.home] /\ ~PlaceholderOf[f.away]

InWindow(f) == now <= f.date /\ f.date <= now + cfg.days_forward

\* C8: in every build run, no fixture whose home or away name
\* is_placeholder_team classifies as a placeholder is in the computed
\* upcoming list, in the computed recent list (primary or fallback path), or
\* counted in a computed Competition: every Competition is the competition
\* of a real upcoming fixture and counts the real upcoming fixtures only.
C8_NoPlaceholderPublished ==
    /\ pc \in {"windowed", "built"} =>
        /\ \A i \in 1..Len(upcoming) : RealTeams(upcoming[i])
        /\ \A i \in 1..Len(recent) : RealTeams(recent[i])
    /\ pc = "built" =>
        \A n \in 1..Len(competitions) :
            LET counted == {i \in 1..Len(upcoming) :
                               /\ upcoming[i].competition = competitions[n].name
                               /\ RealTeams(upcoming[i])}
            IN  /\ counted # {}
                /\ competitions[n].match_count = Cardinality(counted)

\* A finished build that took the fallback path and published one result,
\* from an input with a placeholder fixture inside the upcoming window and a
\* finished placeholder fixture inside the fallback window.
C8_Witness ==
    /\ pc = "built"
    /\ fallback
    /\ Len(recent) = 1
    /\ \E i, j \in 1..Len(fixtures) :
          /\ ~RealTeams(fixtures[i]) /\ InWindow(fixtures[i])
          /\ ~RealTeams(fixtures[j]) /\ fixtures[j].status = "FT"
          /\ fixtures[j].date >= now - cfg.results_fallback_days
          /\ fixtures[j].date < now - cfg.results_days_back

----------------------------------------------------------------------------
(* The inputs on which is_placeholder_team departs from the claims *)

\* "Sligo/Kerry" names two alternatives and no versus marker, and is
\* classified as a real team: the first alternative holds the letter s.
C9_Witness ==
    /\ pc = "classified"
    /\ name = <<"S", "l", "i", "g", "o", "/", "K", "e", "r", "r", "y">>
    /\ verdict = FALSE

\* "Liverpool Gaels" holds no marker and no slash, and is classified as a
\* placeholder: "pool g" is read as a pool marker.
C10_Witness ==
    /\ pc = "classified"
    /\ name = <<"L", "i", "v", "e", "r", "p", "o", "o", "l", " ", "G", "a", "e", "l", "s">>
    /\ verdict = TRUE

----------------------------------------------------------------------------
(* The claims about collapse_future_duplicates, on build_cmd's call: the *)
(* argument is `filtered`, the result is `merged` from "collapsed" on    *)

Collapsed == pc \in {"collapsed", "windowed", "built"}

\* The normalised (home, away) pair of the specification.
SpecPair(f) == <<NormTeamOf[f.home], NormTeamOf[f.away]>>

NotFinished(f) == f.status # "FT"

\* (date, time) of a is not later than that of b.
NotLater(a, b) == ~TupleLess(<<b.date, b.time[1], b.time[2]>>, <<a.date, a.time[1], a.time[2]>>)

\* The ids of a list are unique within one source.
SourceScopedIds(s) ==
    \A i, j \in 1..Len(s) :
        (s[i].source = s[j].source /\ s[i].id = s[j].id) => s[i] = s[j]

\* How often a record occurs in a list.
Occurrences(s, f) == Cardinality({i \in 1..Len(s) : s[i] = f})

\* C11: the result of collapse_future_duplicates holds at most one
\* unfinished fixture per normalised (home, away) pair, and that one has the
\* earliest (date, time) of the unfinished input fixtures of the pair.
C11_OnePerPair ==
    (Collapsed /\ SourceScopedIds(filtered)) =>
        /\ \A i, j \in 1..Len(merged) :
               (/\ NotFinished(merged[i]) /\ NotFinished(merged[j])
                /\ SpecPair(merged[i]) = SpecPair(merged[j])) => i = j
        /\ \A i \in 1..Len(merged) : \A j \in 1..Len(filtered) :
               (/\ NotFinished(merged[i]) /\ NotFinished(filtered[j])
                /\ SpecPair(merged[i]) = SpecPair(filtered[j]))
                   => NotLater(merged[i], filtered[j])

\* Dublin v Kerry scheduled twice, by two sources under the same id "1":
\* both are published.
C11_Witness ==
    /\ pc = "collapsed"
    /\ SourceScopedIds(filtered)
    /\ \E i, j \in 1..Len(merged) :
          /\ i # j
          /\ NotFinished(merged[i]) /\ NotFinished(merged[j])
          /\ SpecPair(merged[i]) = SpecPair(merged[j])
          /\ merged[i].id = merged[j].id
          /\ merged[i].source # merged[j].source
          /\ merged[i].date < merged[j].date

\* C12: every finished input fixture is in the result, as often as in the
\* input; for every pair the earliest unfinished input fixture is in the
\* result whether or not the input has finished fixtures of the pair; the
\* result is sorted ascending by (date, time).
C12_FinishedExempt ==
    Collapsed =>
        /\ \A j \in 1..Len(filtered) :
               ~NotFinished(filtered[j])
                   => Occurrences(merged, filtered[j]) = Occurrences(filtered, filtered[j])
        /\ \A j \in 1..Len(filtered) :
               NotFinished(filtered[j]) =>
                   \E i \in 1..Len(merged) :
                       /\ NotFinished(merged[i])
                       /\ SpecPair(merged[i]) = SpecPair(filtered[j])
                       /\ NotLater(merged[i], filtered[j])
                       /\ \E k \in 1..Len(filtered) : filtered[k] = merged[i]
        /\ \A i \in 1..(Len(merged) - 1) : NotLater(merged[i], merged[i + 1])

\* A scheduled Dublin v Kerry and a finished Dublin v Kerry of a later date
\* both survive, next to a later scheduled one that is dropped.
C12_Witness ==
    /\ pc = "collapsed"
    /\ Len(filtered) = 3 /\ Len(merged) = 2
    /\ NotFinished(merged[1]) /\ ~NotFinished(merged[2])
    /\ SpecPair(merged[1]) = SpecPair(merged[2])
    /\ merged[1].date < merged[2].date
    /\ \E j \in 1..3 : NotFinished(filtered[j]) /\ filtered[j].date > merged[2].date

\* C13: if the placeholder-filtered set has an unfinished fixture of a pair
\* dated from today to today + days_forward, the upcoming list has a fixture
\* of that pair.
C13_SoonestUpcomingKept ==
    pc \in {"windowed", "built"} =>
        \A j \in 1..Len(filtered) :
            (/\ NotFinished(filtered[j])
             /\ now <= filtered[j].date
             /\ filtered[j].date <= now + cfg.days_forward)
                => \E i \in 1..Len(upcoming) :
                       SpecPair(upcoming[i]) = SpecPair(filtered[j])

\* Dublin v Kerry scheduled yesterday (never played) and scheduled again
\* tomorrow: the collapser keeps yesterday's, and upcoming is empty.
C13_Witness ==
    /\ pc = "windowed"
    /\ Len(filtered) = 2
    /\ \A j \in 1..2 : NotFinished(filtered[j]) /\ filtered[j].home = <<"D", "u", "b", "l", "i", "n">>
    /\ filtered[1].date < now
    /\ filtered[2].date > now /\ filtered[2].date <= now + cfg.days_forward
    /\ filtered[1].id # filtered[2].id
    /\ upcoming = << >>

----------------------------------------------------------------------------
(* competitions_from_fixtures and weekend_top_competitions on a list *)

Wk(id, date, time, competition) ==
    Fx(id, date, time, competition, <<"D", "u", "b", "l", "i", "n">>, <<"K", "e", "r", "r", "y">>, None, "scheduled", << >>, "gaa_gms", 1)

\* Fixtures of the weekend of 8/9 November 2025 and of the next Saturday:
\* two competitions of equal popularity, two that differ in punctuation
\* only, one minutes after midnight.
WeekendPool ==
    {Wk("1", 8, <<14, 0>>, <<"A", "l", "l", "-", "I", "r", "e", "l", "a", "n", "d", " ", "S", "e", "n", "i", "o", "r", " ", "F", "o", "o", "t", "b", "a", "l", "l", " ", "C", "h", "a", "m", "p", "i", "o", "n", "s", "h", "i", "p">>),
     Wk("2", 9, <<14, 0>>, <<"D", "i", "v", "i", "s", "i", "o", "n", " ", "2", " ", "L", "e", "a", "g", "u", "e">>),
     Wk("3", 8, <<12, 0>>, <<"D", "i", "v", " ", "1">>),
     Wk("4", 9, <<16, 0>>, <<"D", "i", "v", ".", " ", "1">>),
     Wk("5", 15, <<14, 0>>, <<"A", "l", "l", "-", "I", "r", "e", "l", "a", "n", "d", " ", "S", "e", "n", "i", "o", "r", " ", "C", "h", "a", "m", "p", "i", "o", "n", "s", "h", "i", "p">>),
     Wk("6", 9, <<0, 30>>, <<"N", "F", "L", " ", "D", "i", "v", "i", "s", "i", "o", "n", " ", "2", " ", "L", "e", "a", "g", "u", "e">>)}

\* today: a Wednesday, the Saturday and the Sunday of one week.
Todays == {5, 8, 9}

InitWeekend ==
    /\ pc = "aggregate"
    /\ fixtures \in ListsOf(WeekendPool, MaxLen + 1)
    /\ today \in Todays
    /\ cfg \in [host_utc_offset : {0, 120}]
    /\ competitions = << >> /\ weekend = << >> /\ top = << >>
    /\ name = << >> /\ verdict = FALSE /\ hhmm = << >> /\ bucket = -1
    /\ merged = << >> /\ again = << >> /\ upcoming = << >> /\ recent = << >>
    /\ fallback = FALSE /\ filtered = << >>
    /\ files = << >> /\ prior = << >> /\ handle = << >> /\ seen = << >>
    /\ fetched = << >>

\* competitions_from_fixtures(fixtures)
Aggregate ==
    /\ pc = "aggregate"
    /\ competitions' = competitions_from_fixtures(fixtures, cfg.host_utc_offset)
    /\ pc' = "ranked"
    /\ UNCHANGED <<name, verdict, hhmm, bucket, fixtures, merged, again, cfg,
                   upcoming, recent, fallback, filtered, today, weekend, top,
                   files, prior, handle, seen, fetched>>

\* weekend_top_competitions(fixtures, today)
WeekendTop ==
    /\ pc = "ranked"
    /\ weekend' = london_weekend_for(today)
    /\ top' = weekend_top_competitions(fixtures, today, cfg.host_utc_offset)
    /\ pc' = "top"
    /\ UNCHANGED <<name, verdict, hhmm, bucket, fixtures, merged, again, cfg,
                   upcoming, recent, fallback, filtered, today, competitions,
                   files, prior, handle, seen, fetched>>

SpecWeekend == InitWeekend /\ [][Aggregate \/ WeekendTop]_vars

----------------------------------------------------------------------------
(* The claims about the competition aggregator *)

Ranked == pc \in {"ranked", "top"}

AllIrelandSFC == <<"A", "l", "l", "-", "I", "r", "e", "l", "a", "n", "d", " ", "S", "e", "n", "i", "o", "r", " ", "F", "o", "o", "t", "b", "a", "l", "l", " ", "C", "h", "a", "m", "p", "i", "o", "n", "s", "h", "i", "p">>

Division2League == <<"D", "i", "v", "i", "s", "i", "o", "n", " ", "2", " ", "L", "e", "a", "g", "u", "e">>

\* C14: popularity_score adds the contribution of every keyword rule that
\* matches, so "All-Ireland Senior Football Championship" scores 100 + 60 =
\* 160 and "Division 2 League" scores 30, and the former is listed before
\* the latter.
C14_ScoresOfTheExample ==
    Ranked =>
        \A n \in 1..Len(competitions) :
            /\ competitions[n].name = AllIrelandSFC
                   => competitions[n].popularity = 160
            /\ competitions[n].name = Division2League
                   => competitions[n].popularity = 30
            /\ \A m \in 1..Len(competitions) :
                   (/\ competitions[n].name = AllIrelandSFC
                    /\ competitions[m].name = Division2League) => n < m

\* Both names are aggregated: the championship is listed first, with 100.
C14_Witness ==
    /\ pc = "ranked"
    /\ Len(competitions) = 2
    /\ competitions[1].name = AllIrelandSFC
    /\ competitions[1].popularity = 100
    /\ competitions[2].name = Division2League
    /\ competitions[2].popularity = 30

\* The literal competition strings of a list.
CompetitionStrings(s) == {s[i].competition : i \in 1..Len(s)}

\* The number of fixtures of a list that carry exactly the string c.
Carrying(s, c) == Cardinality({i \in 1..Len(s) : s[i].competition = c})

RECURSIVE SumOfCounts(_)
SumOfCounts(cs) ==
    IF Len(cs) = 0 THEN 0 ELSE cs[1].match_count + SumOfCounts(Tail(cs))

\* C15: competitions_from_fixtures yields exactly one Competition per
\* distinct literal competition string of its input, match_count being the
\* number of input fixtures with exactly that string; the counts sum to the
\* length of the input, and names that differ in case or punctuation only
\* are separate entries.
C15_OnePerLiteralName ==
    Ranked =>
        /\ {competitions[n].name : n \in 1..Len(competitions)} = CompetitionStrings(fixtures)
        /\ Len(competitions) = Cardinality(CompetitionStrings(fixtures))
        /\ \A n \in 1..Len(competitions) :
               competitions[n].match_count = Carrying(fixtures, competitions[n].name)
        /\ SumOfCounts(competitions) = Len(fixtures)

\* "Div 1" twice and "Div. 1" once, of one slug: two entries, counts 2 and 1.
C15_Witness ==
    /\ pc = "ranked"
    /\ Len(fixtures) = 3
    /\ Len(competitions) = 2
    /\ competitions[1].name = <<"D", "i", "v", " ", "1">> /\ competitions[1].match_count = 2
    /\ competitions[2].name = <<"D", "i", "v", ".", " ", "1">> /\ competitions[2].match_count = 1
    /\ competitions[1].slug = competitions[2].slug

\* (-popularity, -match_count, first_kickoff)
RankKey(c) == <<0 - c.popularity, 0 - c.match_count, c.first_kickoff>>

InRankOrder(cs) ==
    \A n \in 1..(Len(cs) - 1) : ~TupleLess(RankKey(cs[n + 1]), RankKey(cs[n]))

\* The fixtures the weekend view looks at.
OfWeekend(s) == SelectSeq(s, LAMBDA f : weekend[1] <= f.date /\ f.date <= weekend[2])

\* C16: the list of competitions_from_fixtures is in the order of
\* (-popularity, -match_count, first_kickoff); weekend_top_competitions
\* returns the first at most 3 entries of that ranking of the weekend's
\* fixtures: at most 3 and as many as there are competitions if fewer, in
\* rank order, of the weekend's competitions, none less popular than a
\* competition left out, and the head of the full list when every fixture is
\* of the weekend.
C16_RankOrder ==
    /\ Ranked => InRankOrder(competitions)
    /\ pc = "top" =>
        /\ InRankOrder(top)
        /\ Len(top) = IF Cardinality(CompetitionStrings(OfWeekend(fixtures))) < 3
                      THEN Cardinality(CompetitionStrings(OfWeekend(fixtures)))
                      ELSE 3
        /\ \A n \in 1..Len(top) :
               /\ top[n].name \in CompetitionStrings(OfWeekend(fixtures))
               /\ top[n].match_count = Carrying(OfWeekend(fixtures), top[n].name)
               /\ \A m \in 1..Len(top) : top[n].name = top[m].name => n = m
               /\ \A m \in 1..Len(competitions) :
                      (/\ competitions[m].name \in CompetitionStrings(OfWeekend(fixtures))
                       /\ \A k \in 1..Len(top) : top[k].name # competitions[m].name)
                          => competitions[m].popularity <= top[n].popularity
        /\ OfWeekend(fixtures) = fixtures
               => top = SubSeq(competitions, 1, Len(top))

\* Four competitions on the weekend: the two most popular are equally
\* popular and equally large and are ranked by their kick-off, and the
\* fourth of the ranking is cut.
C16_Witness ==
    /\ pc = "top"
    /\ Len(competitions) = 4
    /\ competitions[1].popularity = competitions[2].popularity
    /\ competitions[1].match_count = competitions[2].match_count
    /\ competitions[1].first_kickoff < competitions[2].first_kickoff
    /\ competitions[2].popularity > competitions[3].popularity
    /\ Len(top) = 3
    /\ top = SubSeq(competitions, 1, 3)

\* The UTC instant (in minutes of November 2025) of a Europe/London civil
\* date and time: in November London is on GMT.
LondonToUtc(f) == f.date * 1440 + f.time[1] * 60 + f.time[2]

\* C17: first_kickoff of every competition is the UTC instant of its
\* earliest member's (date, time) read as Europe/London civil time,
\* whatever the time zone of the machine that builds.
C17_KickoffIsLondonTime ==
    Ranked =>
        \A n \in 1..Len(competitions) :
            /\ \E i \in 1..Len(fixtures) :
                   /\ fixtures[i].competition = competitions[n].name
                   /\ competitions[n].first_kickoff = LondonToUtc(fixtures[i])
            /\ \A i \in 1..Len(fixtures) :
                   fixtures[i].competition = competitions[n].name
                       => competitions[n].first_kickoff <= LondonToUtc(fixtures[i])

\* On a machine at UTC+2 the fixture of 8 November 14:00 is given the
\* kick-off 12:00Z.
C17_Witness ==
    /\ pc = "ranked"
    /\ cfg.host_utc_offset = 120
    /\ Len(fixtures) = 1
    /\ fixtures[1].date = 8 /\ fixtures[1].time = <<14, 0>>
    /\ competitions[1].first_kickoff = 8 * 1440 + 12 * 60

\* The Saturday of the Monday-to-Sunday week that holds the day d.
SaturdayOfWeek(d) == d - weekday(d) + 5

\* C18: london_weekend_for(d) is the Saturday and the Sunday of the
\* Monday-to-Sunday week that holds d; when d is a Saturday or a Sunday, d
\* is one of the two and the fixtures dated d are looked at by the weekend
\* view.
C18_WeekendOfTheWeek ==
    pc = "top" =>
        /\ weekend = <<SaturdayOfWeek(today), SaturdayOfWeek(today) + 1>>
        /\ weekday(today) \in {5, 6} =>
               /\ today \in {weekend[1], weekend[2]}
               /\ \A i \in 1..Len(fixtures) :
                      fixtures[i].date = today
                          => \E k \in 1..Len(OfWeekend(fixtures)) :
                                 OfWeekend(fixtures)[k] = fixtures[i]

\* On Sunday 9 November, with a fixture that day, the weekend is 15/16
\* November and the view is empty.
C18_Witness ==
    /\ pc = "top"
    /\ today = 9 /\ weekday(today) = 6
    /\ weekend = <<15, 16>>
    /\ \E i \in 1..Len(fixtures) : fixtures[i].date = 9
    /\ top = << >>

----------------------------------------------------------------------------
(* The claims about the window selector *)

Windowed == pc \in {"windowed", "built"}

\* date >= today and (date <= today + days_forward, or the source is the
\* scraper and date <= today + scraper_days_forward).
InUpcomingWindow(f) ==
    /\ f.date >= now
    /\ \/ f.date <= now + cfg.days_forward
       \/ (f.source = "scraper" /\ f.date <= now + cfg.scraper_days_forward)

\* C19: a fixture of the canonical set is in upcoming if and only if its
\* date >= today and (date <= today + days_forward, or its source is scraper
\* and date <= today + scraper_days_forward); upcoming holds it as often as
\* the canonical set and nothing else.
C19_UpcomingWindow ==
    Windowed =>
        /\ \A i \in 1..Len(merged) :
               Occurrences(upcoming, merged[i]) =
                   IF InUpcomingWindow(merged[i]) THEN Occurrences(merged, merged[i])
                   ELSE 0
        /\ \A k \in 1..Len(upcoming) : \E i \in 1..Len(merged) : merged[i] = upcoming[k]

\* With days_forward = 1 and scraper_days_forward = 2: of two fixtures dated
\* today + 2 the scraper's is in upcoming, the registry's is not, next to a
\* fixture dated today + 1 that is.
C19_Witness ==
    /\ pc = "windowed"
    /\ cfg.days_forward = 1 /\ cfg.scraper_days_forward = 2
    /\ Len(merged) = 3 /\ Len(upcoming) = 2
    /\ \E i \in 1..3 : merged[i].date = now + 2 /\ merged[i].source = "gaa_gms"
    /\ upcoming[1].date = now + 1 /\ upcoming[1].source # "scraper"
    /\ upcoming[2].date = now + 2 /\ upcoming[2].source = "scraper"

InResultsWindow(f) == now - cfg.results_days_back <= f.date /\ f.date <= now

\* The primary recent list, a score counting when it is not the empty string.
PrimaryNonEmptyScore ==
    SelectSeq(merged, LAMBDA f :
        /\ InResultsWindow(f)
        /\ (f.status = "FT" \/ (f.score # None /\ f.score # << >>)))

\* The primary recent list, a score counting when it has a character that
\* is not white space.
PrimaryNonBlankScore ==
    SelectSeq(merged, LAMBDA f :
        /\ InResultsWindow(f)
        /\ (f.status = "FT" \/ (f.score # None /\ \E k \in 1..Len(f.score) : ~IsSpace(f.score[k]))))

\* The finished fixtures of the fallback window.
FallbackCandidates ==
    SelectSeq(merged, LAMBDA f :
        f.status = "FT" /\ f.date >= now - cfg.results_fallback_days)

\* recent is what the claim says of a primary list: the primary list itself
\* when it is not empty; else the fallback was taken and recent holds the
\* at most 50 finished fixtures of the fallback window that are latest by
\* (date, time), latest first.
RecentFor(primary) ==
    /\ fallback <=> (primary = << >>)
    /\ primary # << >> => recent = primary
    /\ primary = << >> =>
        /\ Len(recent) = IF Len(FallbackCandidates) < 50 THEN Len(FallbackCandidates) ELSE 50
        /\ \A k \in 1..Len(recent) :
               Occurrences(recent, recent[k]) <= Occurrences(FallbackCandidates, recent[k])
        /\ \A k \in 1..(Len(recent) - 1) : NotLater(recent[k + 1], recent[k])
        /\ \A k \in 1..Len(recent) : \A i \in 1..Len(FallbackCandidates) :
               Occurrences(recent, FallbackCandidates[i]) = 0
                   => NotLater(FallbackCandidates[i], recent[k])

----------------------------------------------------------------------------
(* backend/main.py: the publication of build_cmd, and backend/utils.py: *)
(* write_json, next to a process that reads the published files         *)

\* The three artifacts, in the order in which build_cmd writes them.
Artifacts == <<"fixtures.json", "results.json", "competitions.json">>

\* The list that build_cmd hands to maybe_write for a path.
new_list(path) ==
    CASE path = "fixtures.json"     -> upcoming
      [] path = "results.json"      -> recent
      [] path = "competitions.json" -> competitions

\* orjson.dumps(data) of a list: the opening bracket, the items, the closing
\* bracket. The empty list is "[]", which differs from an empty file.
dumps(data) ==
    <<[t |-> "["]>> \o [i \in 1..Len(data) |-> [t |-> "item", v |-> data[i]]]
                   \o <<[t |-> "]"]>>

\* A policy that skips every empty list, whether or not a file exists.
skips_whenever_empty(preserve_on_empty, new, exists) ==
    preserve_on_empty /\ new = << >>

\* maybe_write returns without writing.
skips(preserve_on_empty, new, exists) ==
    preserve_on_empty /\ new = << >> /\ exists

\* What pc is after the write of a path.
after(path) ==
    CASE path = "fixtures.json"     -> "results.json"
      [] path = "results.json"      -> "competitions.json"
      [] path = "competitions.json" -> "published"

Writing == pc \in {"fixtures.json", "results.json", "competitions.json"}

\* The files with the content of one path replaced (the path is created if
\* it does not exist).
with_file(fs, path, content) ==
    [q \in DOMAIN fs \cup {path} |-> IF q = path THEN content ELSE fs[q]]

\* The records of an earlier run, and the lists of this run.
OldFixture == DK("4", now - 3, <<14, 0>>, "FT", <<"1", "-", "1", "0">>, "clubzap")

NewUpcoming ==
    {<< >>,
     <<DK("1", now + 1, <<14, 0>>, "scheduled", << >>, "gaa_gms")>>,
     <<DK("8", now, <<14, 0>>, "FT", <<"1", "-", "1", "0">>, "gaa_gms"),
       DK("1", now + 1, <<14, 0>>, "scheduled", << >>, "gaa_gms")>>}

NewRecent ==
    {<< >>, <<DK("8", now, <<14, 0>>, "FT", <<"1", "-", "1", "0">>, "gaa_gms")>>}

\* What a path can hold before the run: the empty list or one old item.
PriorContents(path) ==
    IF path = "competitions.json"
    THEN {dumps(<< >>), dumps(competitions_from_fixtures(<<OldFixture>>, 0))}
    ELSE {dumps(<< >>), dumps(<<OldFixture>>)}

\* The states of the directory public/data before the run.
PriorFiles ==
    UNION {{f \in [D -> UNION {PriorContents(p) : p \in D}] :
               \A p \in D : f[p] \in PriorContents(p)} :
           D \in SUBSET {"fixtures.json", "results.json", "competitions.json"}}

InitPublish ==
    /\ pc = "fixtures.json"
    /\ cfg \in [preserve_on_empty : BOOLEAN, host_utc_offset : {0}]
    /\ upcoming \in NewUpcoming
    /\ recent \in NewRecent
    /\ competitions = competitions_from_fixtures(upcoming, cfg.host_utc_offset)
    /\ files \in PriorFiles
    /\ prior = files
    /\ handle = << >> /\ seen = << >>
    /\ name = << >> /\ verdict = FALSE /\ hhmm = << >> /\ bucket = -1
    /\ fixtures = << >> /\ merged = << >> /\ again = << >>
    /\ fallback = FALSE /\ filtered = << >> /\ today = 0 /\ weekend = << >>
    /\ top = << >> /\ fetched = << >>

\* maybe_write: preserve_on_empty, an empty list and an existing file.
SkipWrite ==
    /\ Writing /\ Len(handle) = 0
    /\ skips(cfg.preserve_on_empty, new_list(pc), pc \in DOMAIN files)
    /\ pc' = after(pc)
    /\ UNCHANGED <<name, verdict, hhmm, bucket, fixtures, merged, again, cfg,
                   upcoming, recent, fallback, competitions, filtered, today,
                   weekend, top, files, prior, handle, seen, fetched>>

\* write_json: open(path, "wb") creates or truncates the file; f.write puts
\* the bytes into the buffer of the file object.
OpenFile ==
    /\ Writing /\ Len(handle) = 0
    /\ ~skips(cfg.preserve_on_empty, new_list(pc), pc \in DOMAIN files)
    /\ files' = with_file(files, pc, << >>)
    /\ handle' = <<pc, dumps(new_list(pc))>>
    /\ UNCHANGED <<pc, name, verdict, hhmm, bucket, fixtures, merged, again,
                   cfg, upcoming, recent, fallback, competitions, filtered,
                   today, weekend, top, prior, seen, fetched>>

\* write_json: the buffer passes a part of the data to the file.
FlushPart ==
    /\ Writing /\ Len(handle) = 2 /\ Len(handle[2]) > 0
    /\ files' = with_file(files, pc, files[pc] \o <<Head(handle[2])>>)
    /\ handle' = <<pc, Tail(handle[2])>>
    /\ UNCHANGED <<pc, name, verdict, hhmm, bucket, fixtures, merged, again,
                   cfg, upcoming, recent, fallback, competitions, filtered,
                   today, weekend, top, prior, seen, fetched>>

\* write_json: leaving the with block flushes the rest and closes the file.
CloseFile ==
    /\ Writing /\ Len(handle) = 2
    /\ files' = with_file(files, pc, files[pc] \o handle[2])
    /\ handle' = << >>
    /\ pc' = after(pc)
    /\ UNCHANGED <<name, verdict, hhmm, bucket, fixtures, merged, again, cfg,
                   upcoming, recent, fallback, competitions, filtered, today,
                   weekend, top, prior, seen, fetched>>

\* Another process reads one of the artifacts.
ReadFile ==
    /\ \E p \in {"fixtures.json", "results.json", "competitions.json"} :
          seen' = IF p \in DOMAIN files THEN <<p, files[p]>> ELSE <<p>>
    /\ UNCHANGED <<pc, name, verdict, hhmm, bucket, fixtures, merged, again,
                   cfg, upcoming, recent, fallback, competitions, filtered,
                   today, weekend, top, files, prior, handle, fetched>>

SpecPublish ==
    InitPublish /\ [][SkipWrite \/ OpenFile \/ FlushPart \/ CloseFile \/ ReadFile]_vars

\* C21: for each artifact on its own: with preserve_on_empty enabled, an
\* empty new list and an existing file, the file is left as it was; in every
\* other case the file holds the new list. A skipped artifact does not keep
\* the other two from being written.
C21_PreserveOnEmpty ==
    pc = "published" =>
        \A p \in {"fixtures.json", "results.json", "competitions.json"} :
            IF cfg.preserve_on_empty /\ new_list(p) = << >> /\ p \in DOMAIN prior
            THEN p \in DOMAIN files /\ files[p] = prior[p]
            ELSE p \in DOMAIN files /\ files[p] = dumps(new_list(p))

\* The results file is kept with its old item, the other two are replaced.
C21_Witness ==
    /\ pc = "published"
    /\ cfg.preserve_on_empty
    /\ recent = << >> /\ upcoming # << >>
    /\ DOMAIN prior = {"fixtures.json", "results.json", "competitions.json"}
    /\ files["results.json"] = dumps(<<OldFixture>>)
    /\ files["fixtures.json"] = dumps(upcoming)
    /\ files["fixtures.json"] # prior["fixtures.json"]
    /\ files["competitions.json"] = dumps(competitions)
    /\ files["competitions.json"] # prior["competitions.json"]

\* C22: whatever a concurrent reader reads from an artifact is the complete
\* content the file had before the run or the complete new list.
C22_ReaderSeesWholeFile ==
    Len(seen) = 2 =>
        \/ (seen[1] \in DOMAIN prior /\ seen[2] = prior[seen[1]])
        \/ seen[2] = dumps(new_list(seen[1]))

\* The reader finds results.json empty (not even "[]") while the run writes
\* a result over an old one.
C22_Witness ==
    /\ pc = "results.json"
    /\ Len(handle) = 2
    /\ Len(seen) = 2 /\ seen[1] = "results.json" /\ seen[2] = << >>
    /\ "results.json" \in DOMAIN prior
    /\ prior["results.json"] = dumps(<<OldFixture>>)
    /\ recent # << >>

----------------------------------------------------------------------------
(* backend/main.py: fetch_cmd *)

\* The collaborators, in the order of the loop of fetch_cmd.
Collaborators == <<"gaa_gms", "clubzap", "ics", "scraper">>

\* CACHE / f"{name}_raw.json"
raw_path(source) ==
    CASE source = "gaa_gms" -> "gaa_gms_raw.json"
      [] source = "clubzap" -> "clubzap_raw.json"
      [] source = "ics"     -> "ics_raw.json"
      [] source = "scraper" -> "scraper_raw.json"

\* CACHE / f"{name}_error.log"
error_path(source) ==
    CASE source = "gaa_gms" -> "gaa_gms_error.log"
      [] source = "clubzap" -> "clubzap_error.log"
      [] source = "ics"     -> "ics_error.log"
      [] source = "scraper" -> "scraper_error.log"

\* json.dumps([i.model_dump() for i in items], indent=2)
json_dumps(items) ==
    <<[t |-> "["]>> \o [i \in 1..Len(items) |-> [t |-> "item", v |-> items[i]]]
                   \o <<[t |-> "]"]>>

\* An extend that puts the new items in front.
extend_in_front(all_fixtures, items) == items \o all_fixtures

\* all_fixtures.extend(items)
extend(all_fixtures, items) == all_fixtures \o items

\* The collaborator called after a collaborator.
next_collaborator(source) ==
    CASE source = "gaa_gms" -> "clubzap"
      [] source = "clubzap" -> "ics"
      [] source = "ics"     -> "scraper"
      [] source = "scraper" -> "combine"

\* What fn(cfg) can do: raise, or return no, one or two fixtures.
Outcomes(source) ==
    {[raised |-> TRUE, items |-> << >>],
     [raised |-> FALSE, items |-> << >>],
     [raised |-> FALSE, items |-> <<DK("1", now + 1, <<14, 0>>, "scheduled", << >>, source)>>],
     [raised |-> FALSE, items |-> <<DK("1", now + 1, <<14, 0>>, "scheduled", << >>, source),
                                    DK("2", now - 1, <<14, 0>>, "FT", <<"1", "-", "1", "0">>, source)>>]}

InitFetch ==
    /\ pc = "gaa_gms"
    /\ fetched \in [{"gaa_gms", "clubzap", "ics", "scraper"} ->
                       UNION {Outcomes(s) : s \in {"gaa_gms", "clubzap", "ics", "scraper"}}]
    /\ \A s \in {"gaa_gms", "clubzap", "ics", "scraper"} : fetched[s] \in Outcomes(s)
    /\ fixtures = << >>
    /\ files = << >> /\ prior = << >> /\ handle = << >> /\ seen = << >>
    /\ name = << >> /\ verdict = FALSE /\ hhmm = << >> /\ bucket = -1
    /\ merged = << >> /\ again = << >> /\ cfg = << >> /\ upcoming = << >>
    /\ recent = << >> /\ fallback = FALSE /\ competitions = << >>
    /\ filtered = << >> /\ today = 0 /\ weekend = << >> /\ top = << >>

Fetching == pc \in {"gaa_gms", "clubzap", "ics", "scraper"}

\* The body of the try: fn(cfg) returns, its items are appended and written.
CollaboratorReturns ==
    /\ Fetching
    /\ ~fetched[pc].raised
    /\ fixtures' = extend(fixtures, fetched[pc].items)
    /\ files' = with_file(files, raw_path(pc), json_dumps(fetched[pc].items))
    /\ pc' = next_collaborator(pc)
    /\ UNCHANGED <<name, verdict, hhmm, bucket, merged, again, cfg, upcoming,
                   recent, fallback, competitions, filtered, today, weekend,
                   top, prior, handle, seen, fetched>>

\* except Exception: fn(cfg) raised, the error is logged.
CollaboratorRaises ==
    /\ Fetching
    /\ fetched[pc].raised
    /\ files' = with_file(files, error_path(pc), <<[t |-> "error"]>>)
    /\ pc' = next_collaborator(pc)
    /\ UNCHANGED <<name, verdict, hhmm, bucket, fixtures, merged, again, cfg,
                   upcoming, recent, fallback, competitions, filtered, today,
                   weekend, top, prior, handle, seen, fetched>>

\* The combined cache is written.
WriteCombined ==
    /\ pc = "combine"
    /\ files' = with_file(files, "combined_raw.json", json_dumps(fixtures))
    /\ pc' = "fetched"
    /\ UNCHANGED <<name, verdict, hhmm, bucket, fixtures, merged, again, cfg,
                   upcoming, recent, fallback, competitions, filtered, today,
                   weekend, top, prior, handle, seen, fetched>>

FetchNext == CollaboratorReturns \/ CollaboratorRaises \/ WriteCombined

SpecFetch == InitFetch /\ [][FetchNext]_vars

\* The results of the first k collaborators that did not raise, in the
\* order gaa_gms, clubzap, ics, scraper.
RECURSIVE ResultsOfSucceeded(_)
ResultsOfSucceeded(k) ==
    IF k = 0 THEN << >>
    ELSE ResultsOfSucceeded(k - 1)
         \o (IF fetched[Collaborators[k]].raised THEN << >>
             ELSE fetched[Collaborators[k]].items)

\* C23: fetch_cmd concatenates the results in the order gaa_gms, clubzap,
\* ics, scraper; a collaborator that raises does not end the run: the run
\* goes on to the next step until the combined cache is written, and the
\* combined list holds, in that order, the complete results of every
\* collaborator that did not raise.
C23_FetchSurvivesFailures ==
    /\ pc # "fetched" => ENABLED FetchNext
    /\ pc = "fetched" =>
          /\ fixtures = ResultsOfSucceeded(4)
          /\ "combined_raw.json" \in DOMAIN files
          /\ files["combined_raw.json"] = json_dumps(ResultsOfSucceeded(4))

\* clubzap raises between two collaborators that return fixtures.
C23_Witness ==
    /\ pc = "fetched"
    /\ fetched["clubzap"].raised /\ ~fetched["gaa_gms"].raised /\ ~fetched["ics"].raised
    /\ Len(fixtures) = 3
    /\ fixtures[1].source = "gaa_gms" /\ fixtures[2].source = "ics"
    /\ fixtures[3].source = "scraper"
    /\ "clubzap_error.log" \in DOMAIN files
    /\ Len(files["combined_raw.json"]) = 5

----------------------------------------------------------------------------
(* The claims about the records that pass through build_cmd *)

\* joined(home, away, competition, venue or empty)
Joined(f) ==
    f.home \o <<" ">> \o f.away \o <<" ">> \o f.competition \o <<" ">>
           \o (IF f.venue = None THEN << >> ELSE f.venue)

\* normalize(joined + " " + mapTokens(joined)), for the records of the cache.
SpecSearchIndexOf ==
    [f \in BuildPool |->
        norm_text(Joined(f) \o <<" ">> \o map_irish_tokens(Joined(f)))]

\* Two records agree on every field but search_index.
SameButIndex(f, g) ==
    /\ f.id = g.id /\ f.date = g.date /\ f.time = g.time
    /\ f.competition = g.competition /\ f.home = g.home /\ f.away = g.away
    /\ f.venue = g.venue /\ f.status = g.status /\ f.score = g.score
    /\ f.source = g.source /\ f.updated_at = g.updated_at

\* C24: build_search_index changes the search_index of each fixture and
\* nothing else: the list keeps its length and order, the eleven other
\* fields of every fixture are as before, and search_index is
\* normalize(joined + " " + mapTokens(joined)).
C24_OnlySearchIndex ==
    [][pc = "loaded" =>
          /\ Len(fixtures') = Len(fixtures)
          /\ \A i \in 1..Len(fixtures) :
                 /\ SameButIndex(fixtures'[i], fixtures[i])
                 /\ fixtures'[i].search_index = SpecSearchIndexOf[fixtures[i]]]_vars

\* A fixture of 'Ath with a venue is indexed under ath and under dublin,
\* next to a fixture without venue.
C24_Witness ==
    /\ pc = "indexed"
    /\ Len(fixtures) = 2
    /\ fixtures[1].home = <<"'A", "t", "h">> /\ fixtures[1].venue = CrokePark
    /\ fixtures[1].search_index = <<"a", "t", "h", " ", "k", "e", "r", "r", "y", " ", "d", "i", "v", " ", "1", " ", "c", "r", "o", "k", "e", " ", "p", "a", "r", "k", " ", "d", "u", "b", "l", "i", "n", " ", "k", "e", "r", "r", "y", " ", "d", "i", "v", " ", "1", " ", "c", "r", "o", "k", "e", " ", "p", "a", "r", "k">>
    /\ fixtures[2].venue = None
    /\ fixtures[2].search_index # None


\* C25: dedupe, the placeholder filter, collapse_future_duplicates and the
\* window selection select or discard whole records: after the derivation
\* of search_index the input list is never reordered or modified, and every
\* record of the canonical set, of upcoming and of recent is field for field
\* a record of the input list, occurring at most as often as it occurs
\* there (nothing fabricated, nothing duplicated).
C25_WholeRecordsOnly ==
    [][/\ pc # "loaded" => fixtures' = fixtures
       /\ \A k \in 1..Len(merged') :
              Occurrences(merged', merged'[k]) <= Occurrences(fixtures', merged'[k])
       /\ \A k \in 1..Len(upcoming') :
              Occurrences(upcoming', upcoming'[k]) <= Occurrences(fixtures', upcoming'[k])
       /\ \A k \in 1..Len(recent') :
              Occurrences(recent', recent'[k]) <= Occurrences(fixtures', recent'[k])]_vars

\* A build of three records, two of them one match told by two sources
\* with different venues: one is discarded, the other is published as it
\* was read, next to a result.
C25_Witness ==
    /\ pc = "built"
    /\ Len(fixtures) = 3
    /\ \E i, j \in 1..3 :
           /\ fixtures[i].venue # fixtures[j].venue
           /\ dedupe(<<fixtures[i], fixtures[j]>>) = <<fixtures[j]>>
           /\ Occurrences(upcoming, fixtures[j]) = 1
           /\ Occurrences(upcoming, fixtures[i]) = 0
    /\ Len(upcoming) = 1
    /\ Len(recent) = 1


\* Finished, or with a score that has a character that is not white space.
FinishedOrScored(f) ==
    \/ f.status = "FT"
    \/ (f.score # None /\ \E k \in 1..Len(f.score) : ~IsSpace(f.score[k]))

\* The fixture is in upcoming and in recent.
InBoth(f) == Occurrences(upcoming, f) > 0 /\ Occurrences(recent, f) > 0

\* C26 as stated: no fixture is in both the upcoming and the recent list of
\* a build run.
C26_UpcomingAndRecentDisjoint ==
    Windowed => \A i \in 1..Len(merged) : ~InBoth(merged[i])

\* C26: a fixture is in both upcoming and recent only when it is dated
\* today and finished or scored (primary path), or, on the fallback path,
\* when it is finished and dated after today; on the primary path every
\* fixture dated today that is finished or scored is in both lists.
C26_InBothOnlyTodayOrFallback ==
    Windowed =>
        \A i \in 1..Len(merged) :
            /\ InBoth(merged[i]) =>
                   /\ InUpcomingWindow(merged[i])
                   /\ FinishedOrScored(merged[i])
                   /\ ~fallback => merged[i].date = now
                   /\ fallback => (merged[i].status = "FT" /\ merged[i].date > now)
            /\ (~fallback /\ merged[i].date = now /\ FinishedOrScored(merged[i]))
                   => InBoth(merged[i])

\* The fixture finished today is published as a result and as an upcoming
\* fixture.
C26_Witness ==
    /\ pc = "built"
    /\ ~fallback
    /\ \E i \in 1..Len(merged) :
           /\ merged[i].status = "FT" /\ merged[i].date = now
           /\ InBoth(merged[i])

\* C27 as stated: every fixture of recent, from the primary window or from
\* the fallback, has date <= today and status FT or a non-empty score.
C27_RecentNotAfterToday ==
    Windowed =>
        \A k \in 1..Len(recent) :
            /\ recent[k].date <= now
            /\ (recent[k].status = "FT"
                \/ (recent[k].score # None /\ recent[k].score # << >>))

\* C27: every fixture of recent is finished or has a score that is not
\* blank; from the primary window it is dated within results_days_back days
\* up to today; from the fallback it is finished and dated no earlier than
\* today - results_fallback_days, with no upper end.
C27_RecentPerPath ==
    Windowed =>
        \A k \in 1..Len(recent) :
            /\ FinishedOrScored(recent[k])
            /\ ~fallback => InResultsWindow(recent[k])
            /\ fallback =>
                   /\ recent[k].status = "FT"
                   /\ recent[k].date >= now - cfg.results_fallback_days

\* The fallback publishes a finished fixture dated tomorrow as a result.
C27_Witness ==
    /\ pc = "built"
    /\ fallback
    /\ \E k \in 1..Len(recent) :
           recent[k].status = "FT" /\ recent[k].date > now


\* not f.get(field) of validate_cmd, for the two team names.
HasTeams(f) == Truthy(f.home) /\ Truthy(f.away)

\* C28: every fixture of the computed upcoming and recent lists has a
\* non-empty home name and a non-empty away name, also when the input holds
\* records with an empty team name, so that validate_cmd finds no missing
\* home or away field in them.
C28_TeamsNeverEmpty ==
    Windowed =>
        /\ \A k \in 1..Len(upcoming) : HasTeams(upcoming[k])
        /\ \A k \in 1..Len(recent) : HasTeams(recent[k])

\* The input holds a finished fixture of today without away team and a
\* fixture of tomorrow without home team; neither is published, the third
\* record is.
C28_Witness ==
    /\ pc = "built"
    /\ \E i, j \in 1..Len(fixtures) :
           /\ fixtures[i].away = << >> /\ fixtures[i].date = now
           /\ fixtures[i].status = "FT"
           /\ fixtures[j].home = << >> /\ InUpcomingWindow(fixtures[j])
    /\ Len(upcoming) = 1
    /\ Len(merged) = 1

----------------------------------------------------------------------------
(* The claim about the order of dedupe's input *)

\* The list with the records at positions i and i + 1 exchanged.
Exchanged(s, i) ==
    [k \in 1..Len(s) |-> IF k = i THEN s[i + 1] ELSE IF k = i + 1 THEN s[i] ELSE s[k]]

\* The records of a list, as a set.
RecordsOf(s) == {s[k] : k \in 1..Len(s)}

\* Two candidates of one group have equal (sourcePriority,
\* completenessScore, updated_at) tuples.
TrueTie(s) ==
    \E i, j \in 1..Len(s) :
        /\ i < j
        /\ GroupKey(s[i]) = GroupKey(s[j])
        /\ PreferKey(s[i]) = PreferKey(s[j])

\* C29: if no group holds two candidates with equal (sourcePriority,
\* completenessScore, updated_at) tuples, dedupe returns the same set of
\* records for every permutation of the input list. Every permutation is a
\* product of exchanges of neighbours, an exchange keeps the groups and
\* their tuples, and every list is checked: it is enough that no exchange
\* of two neighbours changes the set.
C29_OrderOnlyMattersOnTies ==
    (pc = "deduped" /\ ~TrueTie(fixtures)) =>
        \A i \in 1..(Len(fixtures) - 1) :
            RecordsOf(dedupe(Exchanged(fixtures, i))) = RecordsOf(merged)

\* Three candidates of one group without tie, the preferred one read last:
\* it is the one returned, as it is for the list read in another order.
C29_Witness ==
    /\ pc = "deduped"
    /\ Len(fixtures) = 3
    /\ ~TrueTie(fixtures)
    /\ GroupKey(fixtures[1]) = GroupKey(fixtures[3])
    /\ GroupKey(fixtures[2]) = GroupKey(fixtures[3])
    /\ merged = <<fixtures[3]>>
    /\ dedupe(<<fixtures[3], fixtures[1], fixtures[2]>>) = merged

----------------------------------------------------------------------------
(* The claim about kickoff times a minute or two apart *)

\* The distance of two numbers.
Distance(a, b) == IF a < b THEN b - a ELSE a - b

\* Both times are within two minutes of one multiple of five minutes.
NearSameMultipleOfFive(t1, t2) ==
    \E q \in 0..288 :
        /\ Distance(_minutes(t1), 5 * q) <= 2
        /\ Distance(_minutes(t2), 5 * q) <= 2

\* C30 as stated: two records that agree on date, normalised home,
\* normalised away and competition slug and whose times differ by at most
\* 2 minutes are merged into one output record.
C30_TwoMinutesApartMerged ==
    (pc = "deduped" /\ Distance(_minutes(hhmm[1]), _minutes(hhmm[2])) <= 2)
        => Len(merged) = 1

\* C30: two records that agree on date, normalised home, normalised away
\* and competition slug are merged into one output record exactly when
\* their times are within two minutes of the same multiple of five minutes;
\* otherwise both are returned, also when the times are one minute apart.
C30_MergedIffSameMultipleOfFive ==
    pc = "deduped" =>
        /\ NearSameMultipleOfFive(hhmm[1], hhmm[2]) => Len(merged) = 1
        /\ ~NearSameMultipleOfFive(hhmm[1], hhmm[2]) => Len(merged) = 2

\* 19:32 and 19:33, one minute apart, are returned as two records.
C30_Witness ==
    /\ pc = "deduped"
    /\ hhmm = <<<<19, 32>>, <<19, 33>>>>
    /\ GroupKey(fixtures[1]) # GroupKey(fixtures[2])
    /\ Len(merged) = 2

====
